---- MODULE Spec2Model ----
(***************************************************************************)
(* Pac-Man simulation core (GalaxyRod/Proyecto): the game status machine   *)
(* with its timed effects (GameState + TimerManager), the score            *)
(* accumulator (ScoreSystem), the event bus (EventMediator), the path      *)
(* search (PathFinder), the level loader (LevelLoader, Level) and the      *)
(* collision pass (CollisionSystem), each as a state machine over the same *)
(* variables.                                                              *)
(* Scores are kept in half points (the dot is worth 0.5), so every value   *)
(* ending in 2 below is twice the number in the source.                    *)
(***************************************************************************)
EXTENDS Integers, Sequences, FiniteSets, TLC

(* ------------------------------ bounds --------------------------------- *)
MaxDur == 2
MaxHandles == 2
MaxLevel == 2
GsMaxScore2 == 4
ScMaxScore2 == 60
MaxListeners == 2
MaxRegs == 3
GridW == 3
GridH == 2
MaxWalls == 2
MaxRows == 3
MaxCols == 3
MaxMarks == 2
MaxGhosts == 2
MaxPasses == 1

(* --------------------------- program constants ------------------------- *)
DotValue2 == 1
PowerPelletValue2 == 2
PathPelletValue2 == 2
FruitValue2 == 10
LevelCompletionValue2 == 2
GhostTable2 == <<2, 4, 8, 16>>
maxAttempts == 100
RespawnDelay == 5000
InvincibleMs == 3000
InitialLives == 2

SCARED_TIMER == "ghostsScared"
PATH_TIMER == "showPath"
TimerIds == {SCARED_TIMER, PATH_TIMER}

GameStatus == {"Loading", "Playing", "Paused", "GameOver", "Victory", "NameInput", "HighScores"}

Durations == 1..MaxDur
Handles == 1..MaxHandles
NoTimeout == [id |-> "none", left |-> 0]

VARIABLES
  status, level, ghostsScared, showPath, callbackSet,  \* GameState fields
  timers,          \* TimerManager.timers : timer id -> handle (0: no entry)
  timeouts,        \* the host's armed timeouts : handle -> [id, left]
  score2, consecutiveGhosts,                           \* ScoreSystem fields
  lastOp,          \* the operation that produced this state
  ret,             \* value returned by the last operation (FALSE when it returns nothing)
  cbCalls,         \* statuses handed to the status-change callback by the last operation
  published,       \* event types published on the bus by the last operation
  lastPoints2,     \* pointsAdded of the ScoreChanged event of the last operation (0: none)
  oldArmed,        \* timer ids with an armed timeout when the last operation was called
  oldStreak,       \* consecutiveGhosts when the last operation was called
  sinceArm,        \* per timer id: time elapsed since the last setTimer for it
  lastDur,         \* per timer id: duration given to the last setTimer for it
  live,            \* per timer id: armed by the owner and neither expired nor cleared since
  expiries,        \* per timer id: expiry callbacks run since the last setTimer for it
  streakK,         \* GhostEaten events since the last streak reset (pellet, mode end, scare, reset)
  scen,            \* how much of the reference event sequence has been replayed (-1: left it)
  listeners,       \* EventMediator.listeners : event type -> registrations, in order
  disp,            \* the notify call in progress (or the last one): iterator and observations
  passable,        \* Node.isPassable of every node of the level graph
  prev,            \* Node.prev of every node (NoNode: null)
  pfFrom, pfTo,    \* arguments of the last constructPathBFS call
  pfPath,          \* its result
  pfIter,          \* the number of nodes it took from the work list
  pfDone,          \* the call has been made
  pfWritten,       \* the nodes whose prev it assigned
  pfStale,         \* a node of its result held another node in prev when it started
  lvRows,          \* LevelLoader.levelData split into rows of characters
  lvLevel,         \* the Level handed to the caller of buildLevel (built: FALSE when none)
  lvError,         \* the GameErrorType buildLevel threw ("none": it returned)
  lvPacman,        \* the cell whose centre pacman.reposition last got from the loader
  rpState,         \* Level.getRandomPoint: "idle", "drawing", "returned" or "failed"
  rpAttempts,      \* its attempts counter
  rpPoint,         \* the node of its last draw, once the loop has been left
  coPac,           \* the player's position (pixels)
  coDots,          \* LevelEntities.dots, in array order
  coPellets,       \* LevelEntities.pellets, in array order
  coGhosts,        \* LevelEntities.ghosts, in array order
  coLife,          \* LifeComponent: lives, invincible, time left on the invincibility timer
  coRespawns,      \* the timeouts armed by scheduleGhostRespawn: ghost, delay, time waited, run or not
  coLog,           \* what the last CollisionSystem.update did, in order
  coPre,           \* the argument of that call and the state it started from
  coPasses,        \* CollisionSystem.update calls so far
  esLevel,         \* EntitySystem.level: the loadLevel call whose level is installed (0: null)
  esLoads,         \* the loadLevel calls waiting at their await
  esStarted,       \* loadLevel calls made so far
  esScreen,        \* the screen UIManager holds open: "none", "name" or "scores"
  esFrames,        \* EntitySystem.frameCount
  esSeen,          \* what the game held once the listeners of each entry of coLog had run
  esPre,           \* what the game held when that frame started
  wlWall,          \* a Wall: x, y, width, height
  wlRadius,        \* the radius of the entity handed to Wall.handleCollision
  wlFrom,          \* where the entity was when the last handleCollision was called
  wlPos,           \* where the entity is
  wlCalls,         \* handleCollision calls so far
  ghCall,          \* a determineDestination call: its arguments, what the supplier gave, the result
  pcComp,          \* a PathfindingComponent, the node its ghost stands on and what its last update did
  ptrl             \* a PatrolBehavior: its fields and what its last call was given and returned

gsVars == <<status, level, ghostsScared, showPath, callbackSet, timers, timeouts,
            lastOp, ret, cbCalls, published, oldArmed, oldStreak,
            sinceArm, lastDur, live, expiries>>
scVars == <<score2, consecutiveGhosts, lastPoints2>>
scHist == <<streakK, scen>>
busVars == <<listeners, disp>>
pfVars == <<passable, prev, pfFrom, pfTo, pfPath, pfIter, pfDone, pfWritten, pfStale>>
lvVars == <<lvRows, lvLevel, lvError, lvPacman>>
rpVars == <<rpState, rpAttempts, rpPoint>>
coVars == <<coPac, coDots, coPellets, coGhosts, coLife, coRespawns, coLog, coPre, coPasses>>
esVars == <<esLevel, esLoads, esStarted, esScreen, esFrames, esSeen, esPre>>
wlVars == <<wlWall, wlRadius, wlFrom, wlPos, wlCalls>>
ghVars == <<ghCall, pcComp, ptrl>>
restVars == <<lvVars, rpVars, coVars, esVars, wlVars, ghVars>>
vars == <<gsVars, scVars, scHist, busVars, pfVars, restVars>>

(* ------------------------------ TimerManager --------------------------- *)
ArmedIds(to) == {to[h].id : h \in {g \in Handles : to[g].id # "none"}}

FreeHandles(to) == {h \in Handles : to[h].id = "none"}

\* window.clearTimeout(h)
clearTimeout(to, h) == [to EXCEPT ![h] = NoTimeout]

\* clearTimer that forgets the entry without cancelling the host timeout
clearTimerKeepsTimeout(tm, id) ==
  [timers |-> [tm.timers EXCEPT ![id] = 0], timeouts |-> tm.timeouts]

\* TimerManager.clearTimer: cancel the tracked timeout and drop the entry
clearTimer(tm, id) ==
  IF tm.timers[id] # 0
    THEN [timers |-> [tm.timers EXCEPT ![id] = 0],
          timeouts |-> clearTimeout(tm.timeouts, tm.timers[id])]
    ELSE tm

\* TimerManager.setTimer: clear the existing timer, arm a new timeout, track it
setTimer(tm, id, d) ==
  LET c == clearTimer(tm, id)
      h == CHOOSE f \in FreeHandles(c.timeouts) : \A g \in FreeHandles(c.timeouts) : f <= g
  IN  [timers |-> [c.timers EXCEPT ![id] = h],
       timeouts |-> [c.timeouts EXCEPT ![h] = [id |-> id, left |-> d]]]

\* clearAllTimers that empties the map without cancelling the host timeouts
clearAllTimersMapOnly(tm) ==
  [timers |-> [i \in TimerIds |-> 0], timeouts |-> tm.timeouts]

\* TimerManager.clearAllTimers: cancel every tracked timeout, empty the map
clearAllTimers(tm) ==
  [timers |-> [i \in TimerIds |-> 0],
   timeouts |-> [h \in Handles |->
                   IF \E i \in TimerIds : tm.timers[i] = h THEN NoTimeout ELSE tm.timeouts[h]]]

TM == [timers |-> timers, timeouts |-> timeouts]

(* ------------------------------ ScoreSystem ---------------------------- *)
Min(a, b) == IF a <= b THEN a ELSE b

\* addGhostScore indexing the table after the increment
GhostPoints2AfterIncrement(cg) == GhostTable2[Min(cg + 1, Len(GhostTable2) - 1) + 1]

\* ScoreSystem.addGhostScore: points for the next ghost of the streak
GhostPoints2(cg) == GhostTable2[Min(cg, Len(GhostTable2) - 1) + 1]

\* a reset that leaves the streak as it is
resetConsecutiveGhostsKeeps(cg) == cg

\* ScoreSystem.resetConsecutiveGhosts
resetConsecutiveGhosts(cg) == 0

(* ------------------------------ GameState ------------------------------ *)
\* GameState.setStatus: assign, and call the callback only on a change
setStatus(new) ==
  /\ status' = new
  /\ cbCalls' = IF status # new /\ callbackSet THEN <<new>> ELSE <<>>

Observe(op) ==
  /\ lastOp' = op
  /\ oldArmed' = ArmedIds(timeouts)
  /\ oldStreak' = consecutiveGhosts
  /\ UNCHANGED <<scHist, busVars, pfVars, restVars>>

\* ScoreSystem untouched, no ScoreChanged published
ScSame ==
  /\ lastPoints2' = 0
  /\ UNCHANGED <<score2, consecutiveGhosts>>

InstallTM(tm) ==
  /\ timers' = tm.timers
  /\ timeouts' = tm.timeouts

\* history bookkeeping of an operation that clears every timer
HistCleared ==
  /\ live' = [i \in TimerIds |-> FALSE]
  /\ sinceArm' = [i \in TimerIds |-> 0]
  /\ lastDur' = [i \in TimerIds |-> 0]
  /\ expiries' = [i \in TimerIds |-> 0]

HistSame == UNCHANGED <<sinceArm, lastDur, live, expiries>>

HistArm(id, d) ==
  /\ sinceArm' = [sinceArm EXCEPT ![id] = 0]
  /\ lastDur' = [lastDur EXCEPT ![id] = d]
  /\ live' = [live EXCEPT ![id] = TRUE]
  /\ expiries' = [expiries EXCEPT ![id] = 0]

Reset ==
  /\ Observe("reset")
  /\ status' = "Loading"
  /\ level' = 1
  /\ ghostsScared' = FALSE
  /\ showPath' = FALSE
  /\ InstallTM(clearAllTimers(TM))
  /\ score2' = 0                 \* scoreSystem.reset()
  /\ consecutiveGhosts' = 0
  /\ lastPoints2' = 0
  /\ cbCalls' = <<>>
  /\ published' = <<>>
  /\ ret' = FALSE
  /\ HistCleared
  /\ UNCHANGED callbackSet

StatusOnly(op, new) ==
  /\ Observe(op)
  /\ setStatus(new)
  /\ published' = <<>>
  /\ ret' = FALSE
  /\ HistSame
  /\ ScSame
  /\ UNCHANGED <<level, ghostsScared, showPath, callbackSet, timers, timeouts>>

NoChange(op) ==
  /\ Observe(op)
  /\ cbCalls' = <<>>
  /\ published' = <<>>
  /\ ret' = FALSE
  /\ HistSame
  /\ ScSame
  /\ UNCHANGED <<status, level, ghostsScared, showPath, callbackSet, timers, timeouts>>

StartGame == StatusOnly("startGame", "Playing")

PauseGame ==
  IF status = "Playing" THEN StatusOnly("pauseGame", "Paused") ELSE NoChange("pauseGame")

ResumeGame ==
  IF status = "Paused" THEN StatusOnly("resumeGame", "Playing") ELSE NoChange("resumeGame")

\* togglePause reporting "now paused" on both toggling branches
togglePauseBranchAlwaysTrue(s) ==
  IF s = "Playing" THEN [to |-> "Paused", ret |-> TRUE]
  ELSE IF s = "Paused" THEN [to |-> "Playing", ret |-> TRUE]
  ELSE [to |-> s, ret |-> FALSE]

\* GameState.togglePause: the branch taken and the value returned
togglePauseBranch(s) ==
  IF s = "Playing" THEN [to |-> "Paused", ret |-> TRUE]
  ELSE IF s = "Paused" THEN [to |-> "Playing", ret |-> FALSE]
  ELSE [to |-> s, ret |-> FALSE]

TogglePause ==
  /\ Observe("togglePause")
  /\ setStatus(togglePauseBranch(status).to)  \* pauseGame / resumeGame, whose guard holds
  /\ ret' = togglePauseBranch(status).ret
  /\ published' = <<>>
  /\ HistSame
  /\ ScSame
  /\ UNCHANGED <<level, ghostsScared, showPath, callbackSet, timers, timeouts>>

EndsWith(op, new) ==
  /\ Observe(op)
  /\ setStatus(new)
  /\ InstallTM(clearAllTimers(TM))
  /\ published' = <<>>
  /\ ret' = FALSE
  /\ HistCleared
  /\ ScSame
  /\ UNCHANGED <<level, ghostsScared, showPath, callbackSet>>

EndGame == EndsWith("endGame", "GameOver")

WinGame == EndsWith("winGame", "Victory")

ShowNameInput == StatusOnly("showNameInput", "NameInput")

ShowHighScores == StatusOnly("showHighScores", "HighScores")

NextLevel ==
  /\ level < MaxLevel
  /\ Observe("nextLevel")
  /\ level' = level + 1
  /\ InstallTM(clearAllTimers(TM))
  /\ cbCalls' = <<>>
  /\ published' = <<>>
  /\ ret' = FALSE
  /\ HistCleared
  /\ ScSame
  /\ UNCHANGED <<status, ghostsScared, showPath, callbackSet>>

SetGhostsScared(d) ==
  /\ FreeHandles(clearTimer(TM, SCARED_TIMER).timeouts) # {}
  /\ Observe("setGhostsScared")
  /\ ghostsScared' = TRUE
  /\ consecutiveGhosts' = resetConsecutiveGhosts(consecutiveGhosts)
  /\ InstallTM(setTimer(TM, SCARED_TIMER, d))
  /\ cbCalls' = <<>>
  /\ published' = <<>>
  /\ ret' = FALSE
  /\ lastPoints2' = 0
  /\ HistArm(SCARED_TIMER, d)
  /\ UNCHANGED <<status, level, showPath, callbackSet, score2>>

SetShowPath(d) ==
  /\ FreeHandles(clearTimer(TM, PATH_TIMER).timeouts) # {}
  /\ Observe("setShowPath")
  /\ showPath' = TRUE
  /\ InstallTM(setTimer(TM, PATH_TIMER, d))
  /\ cbCalls' = <<>>
  /\ published' = <<>>
  /\ ret' = FALSE
  /\ HistArm(PATH_TIMER, d)
  /\ ScSame
  /\ UNCHANGED <<status, level, ghostsScared, callbackSet>>

SetStatusChangeCallback(b) ==
  /\ callbackSet # b
  /\ Observe("setStatusChangeCallback")
  /\ callbackSet' = b
  /\ cbCalls' = <<>>
  /\ published' = <<>>
  /\ ret' = FALSE
  /\ HistSame
  /\ ScSame
  /\ UNCHANGED <<status, level, ghostsScared, showPath, timers, timeouts>>

\* time passes by one unit; a due timeout runs before time passes again
Tick ==
  /\ ArmedIds(timeouts) # {}
  /\ \A h \in Handles : timeouts[h].id # "none" => timeouts[h].left > 0
  /\ Observe("tick")
  /\ timeouts' = [h \in Handles |->
                    IF timeouts[h].id = "none" THEN NoTimeout
                    ELSE [timeouts[h] EXCEPT !.left = @ - 1]]
  /\ sinceArm' = [i \in TimerIds |-> IF live[i] THEN sinceArm[i] + 1 ELSE sinceArm[i]]
  /\ cbCalls' = <<>>
  /\ published' = <<>>
  /\ ret' = FALSE
  /\ ScSame
  /\ UNCHANGED <<status, level, ghostsScared, showPath, callbackSet, timers,
                 lastDur, live, expiries>>

\* history bookkeeping of an expiry
HistExpire(id) ==
  /\ expiries' = [expiries EXCEPT ![id] = Min(@ + 1, 2)]
  /\ live' = [live EXCEPT ![id] = FALSE]
  /\ sinceArm' = [sinceArm EXCEPT ![id] = 0]
  /\ lastDur' = [lastDur EXCEPT ![id] = 0]

\* the wrapper armed by setTimer for the scared effect runs:
\* the effect's callback (flag, PowerModeEnded to the bus), then timers.delete(id)
ExpireScared(h) ==
  /\ timeouts[h].id = SCARED_TIMER
  /\ timeouts[h].left = 0
  /\ Observe("expireScared")
  /\ ghostsScared' = FALSE
  /\ published' = <<"PowerModeEnded">>
  /\ consecutiveGhosts' = resetConsecutiveGhosts(consecutiveGhosts)  \* ScoreSystem's listener
  /\ timeouts' = [timeouts EXCEPT ![h] = NoTimeout]
  /\ timers' = [timers EXCEPT ![SCARED_TIMER] = 0]
  /\ cbCalls' = <<>>
  /\ ret' = FALSE
  /\ lastPoints2' = 0
  /\ HistExpire(SCARED_TIMER)
  /\ UNCHANGED <<status, level, showPath, callbackSet, score2>>

\* the wrapper armed by setTimer for the path effect runs
ExpirePath(h) ==
  /\ timeouts[h].id = PATH_TIMER
  /\ timeouts[h].left = 0
  /\ Observe("expirePath")
  /\ showPath' = FALSE
  /\ published' = <<>>
  /\ timeouts' = [timeouts EXCEPT ![h] = NoTimeout]
  /\ timers' = [timers EXCEPT ![PATH_TIMER] = 0]
  /\ cbCalls' = <<>>
  /\ ret' = FALSE
  /\ HistExpire(PATH_TIMER)
  /\ ScSame
  /\ UNCHANGED <<status, level, ghostsScared, callbackSet>>

\* a GhostEaten event reaches ScoreSystem's listener: addGhostScore -> addScore
NotifyGhostEaten ==
  /\ score2 + GhostPoints2(consecutiveGhosts) <= GsMaxScore2
  /\ Observe("notifyGhostEaten")
  /\ score2' = score2 + GhostPoints2(consecutiveGhosts)
  /\ lastPoints2' = GhostPoints2(consecutiveGhosts)
  /\ consecutiveGhosts' = consecutiveGhosts + 1
  /\ published' = <<"GhostEaten", "ScoreChanged">>
  /\ cbCalls' = <<>>
  /\ ret' = FALSE
  /\ HistSame
  /\ UNCHANGED <<status, level, ghostsScared, showPath, callbackSet, timers, timeouts>>

BusTypes == {"DotCollected", "GhostEaten"}
ListenerIds == 1..MaxListeners

\* no notify call has been made
BusIdle == [active |-> FALSE, type |-> "none", idx |-> 0,
            snapshot |-> <<>>, invoked |-> <<>>, mutated |-> FALSE]

\* GameState.constructor, TimerManager.constructor, ScoreSystem.constructor
GsInit ==
  /\ status = "Loading"
  /\ level = 1
  /\ ghostsScared = FALSE
  /\ showPath = FALSE
  /\ timers = [i \in TimerIds |-> 0]
  /\ timeouts = [h \in Handles |-> NoTimeout]
  /\ score2 = 0
  /\ consecutiveGhosts = 0
  /\ lastOp = "new"
  /\ ret = FALSE
  /\ cbCalls = <<>>
  /\ published = <<>>
  /\ lastPoints2 = 0
  /\ oldArmed = {}
  /\ oldStreak = 0
  /\ sinceArm = [i \in TimerIds |-> 0]
  /\ lastDur = [i \in TimerIds |-> 0]
  /\ live = [i \in TimerIds |-> FALSE]
  /\ expiries = [i \in TimerIds |-> 0]
  /\ streakK = 0
  /\ scen = 0

BusInit ==
  /\ listeners = [t \in BusTypes |-> [has |-> FALSE, q |-> <<>>]]
  /\ disp = BusIdle

Cells == (0..(GridW - 1)) \X (0..(GridH - 1))
NoNode == <<-1, -1>>

\* Node.constructor: prev is null; constructPathBFS has not been called
PfFresh ==
  /\ prev = [c \in Cells |-> NoNode]
  /\ pfFrom = NoNode
  /\ pfTo = NoNode
  /\ pfPath = <<>>
  /\ pfIter = 0
  /\ pfDone = FALSE
  /\ pfWritten = {}
  /\ pfStale = FALSE

PfInit ==
  /\ passable = [c \in Cells |-> TRUE]
  /\ PfFresh

\* no Level has been built
NoLevel == [built |-> FALSE, graph |-> <<>>, startNode |-> NoNode]

\* a LevelLoader on the smallest level text, buildLevel not yet called
LvIdle ==
  /\ lvRows = << <<"S">> >>
  /\ lvLevel = NoLevel
  /\ lvError = "none"
  /\ lvPacman = NoNode

\* the components that take no part in the specification at hand
\* getRandomPoint has not been called
RpIdle ==
  /\ rpState = "idle"
  /\ rpAttempts = 0
  /\ rpPoint = NoNode

\* the level of the collision scenes: 3 x 2 tiles of 40 pixels, a wall on tile
\* (2,0), the start node on tile (0,1); entity sizes as the loader derives them
tileSize == 40
pacmanRadius == 16
dotRadius == 3
pelletRadius == 8
ghostSize == 10
CoWalls == << [x |-> 80, y |-> 0, width |-> 40, height |-> 40] >>
CoStart == [x |-> 0, y |-> 1]
NoGhost == [id |-> 0, gen |-> 0, x |-> 0, y |-> 0, behavior |-> "none"]
NoPre == [scared |-> FALSE, pac |-> [x |-> 0, y |-> 0],
          life |-> [lives |-> 0, invincible |-> FALSE, left |-> -1], dots |-> <<>>,
          pellets |-> <<>>, ghosts |-> <<>>, error |-> "none"]
NewLife == [lives |-> InitialLives, invincible |-> FALSE, left |-> -1]

\* no level is being played
CoIdle ==
  /\ coPac = [x |-> 0, y |-> 0]
  /\ coDots = <<>>
  /\ coPellets = <<>>
  /\ coGhosts = <<>>
  /\ coLife = NewLife
  /\ coRespawns = {}
  /\ coLog = <<>>
  /\ coPre = NoPre
  /\ coPasses = 0

NoEsPre == [ghostsScared |-> FALSE, showPath |-> FALSE, scaredLeft |-> -1, pathLeft |-> -1,
            consecutiveGhosts |-> 0, score2 |-> 0, status |-> "none", scoreChanged |-> 0]

\* no Game has been put together
EsIdle ==
  /\ esLevel = 0
  /\ esLoads = {}
  /\ esStarted = 0
  /\ esScreen = "none"
  /\ esFrames = 0
  /\ esSeen = <<>>
  /\ esPre = NoEsPre

\* a PathfindingComponent as its constructor leaves it, on no ghost
NoComp == [updateFrequency |-> 0, lastUpdate |-> 0, path |-> <<>>, destination |-> NoNode,
           currentPoint |-> NoNode, currentTarget |-> NoNode, chaseRadius |-> 0,
           pos |-> NoNode, ticks |-> 0, searched |-> FALSE, moved |-> "NONE", dir |-> "NONE"]

\* a PatrolBehavior that is not in use
NoPatrol == [patrolPoints |-> <<>>, currentPatrolIndex |-> 0, chaseRadius |-> 0,
             op |-> "none", before |-> 0, current |-> NoNode, pacman |-> NoNode,
             isScared |-> FALSE, random |-> NoNode, dest |-> NoNode]

\* no destination is being asked for
GhIdle ==
  /\ ghCall = [current |-> NoNode, pacman |-> NoNode, isScared |-> FALSE, chaseRadius |-> 0,
               supplied |-> NoNode, called |-> FALSE, dest |-> NoNode, done |-> FALSE]
  /\ pcComp = NoComp
  /\ ptrl = NoPatrol

\* no wall is being tried
WlIdle ==
  /\ wlWall = [x |-> 0, y |-> 0, width |-> 0, height |-> 0]
  /\ wlRadius = 0
  /\ wlFrom = [x |-> 0, y |-> 0]
  /\ wlPos = [x |-> 0, y |-> 0]
  /\ wlCalls = 0

RestIdle ==
  /\ LvIdle
  /\ RpIdle
  /\ CoIdle
  /\ EsIdle
  /\ WlIdle
  /\ GhIdle

Init ==
  /\ GsInit
  /\ callbackSet \in BOOLEAN
  /\ BusInit
  /\ PfInit
  /\ RestIdle

Next ==
  \/ Reset
  \/ StartGame
  \/ PauseGame
  \/ ResumeGame
  \/ TogglePause
  \/ EndGame
  \/ WinGame
  \/ ShowNameInput
  \/ ShowHighScores
  \/ NextLevel
  \/ \E d \in Durations : SetGhostsScared(d)
  \/ \E d \in Durations : SetShowPath(d)
  \/ \E b \in BOOLEAN : SetStatusChangeCallback(b)
  \/ Tick
  \/ \E h \in Handles : ExpireScared(h)
  \/ \E h \in Handles : ExpirePath(h)
  \/ NotifyGhostEaten

Spec == Init /\ [][Next]_vars

(* ======================= GameState: claims ============================= *)
StatusOps == {"startGame", "pauseGame", "resumeGame", "togglePause", "endGame",
              "winGame", "showNameInput", "showHighScores", "reset"}

\* C1: with a callback registered, every status operation (reset included) that
\* leaves the status changed calls the callback exactly once with the new
\* status, and one that leaves it unchanged does not call it.
C1_CallbackOnEveryChange ==
  [][(lastOp' \in StatusOps /\ callbackSet) =>
       cbCalls' = (IF status' # status THEN <<status'>> ELSE <<>>)]_vars

\* C2: togglePause goes Playing -> Paused returning true, Paused -> Playing
\* returning false, and from any other status returns false and changes
\* nothing; pauseGame acts only from Playing, resumeGame only from Paused.
C2_TogglePause ==
  [][/\ lastOp' = "togglePause" =>
          /\ status = "Playing" => (status' = "Paused" /\ ret' = TRUE)
          /\ status = "Paused" => (status' = "Playing" /\ ret' = FALSE)
          /\ status \notin {"Playing", "Paused"} => (status' = status /\ ret' = FALSE)
     /\ lastOp' = "pauseGame" =>
          status' = (IF status = "Playing" THEN "Paused" ELSE status)
     /\ lastOp' = "resumeGame" =>
          status' = (IF status = "Paused" THEN "Playing" ELSE status)]_vars

C2_Witness == lastOp = "togglePause" /\ status = "Playing" /\ ret = FALSE

\* C3: endGame from any status leaves GameOver; endGame and winGame leave no
\* timeout armed, and a scared expiry runs only for a timer armed by
\* setGhostsScared and not cleared since.
C3_EndGameCancelsTimers ==
  /\ [](lastOp = "endGame" => status = "GameOver")
  /\ [](lastOp \in {"endGame", "winGame"} => ArmedIds(timeouts) = {})
  /\ [][lastOp' = "expireScared" => live[SCARED_TIMER]]_vars

C3_Witness ==
  lastOp = "endGame" /\ SCARED_TIMER \in oldArmed /\ ghostsScared /\ status = "GameOver"

\* C4: startGame changes the status only from Loading, winGame only from
\* Playing, showNameInput only from GameOver or Victory, showHighScores only
\* from NameInput; elsewhere each leaves the status unchanged.
C4_IntentsGuarded ==
  [][/\ (lastOp' = "startGame" /\ status # "Loading") => status' = status
     /\ (lastOp' = "winGame" /\ status # "Playing") => status' = status
     /\ (lastOp' = "showNameInput" /\ status \notin {"GameOver", "Victory"}) => status' = status
     /\ (lastOp' = "showHighScores" /\ status # "NameInput") => status' = status]_vars

FlagOf(id) == IF id = SCARED_TIMER THEN ghostsScared ELSE showPath

HandlesOf(id) == {h \in Handles : timeouts[h].id = id}

\* C5: re-arming an effect replaces its timer: at most one timeout per effect
\* is armed, it is the tracked one and runs exactly when the duration of the
\* last call has elapsed, until then the flag stays true, and the expiry
\* callback (flag reset, PowerModeEnded) runs at most once per arming.
C5_RearmReplaces ==
  /\ [](\A id \in TimerIds :
          /\ Cardinality(HandlesOf(id)) <= 1
          /\ expiries[id] <= 1
          /\ live[id] => /\ FlagOf(id)
                         /\ HandlesOf(id) = {timers[id]}
                         /\ timeouts[timers[id]].left = lastDur[id] - sinceArm[id])
  /\ [][/\ lastOp' = "expireScared" =>
             (live[SCARED_TIMER] /\ sinceArm[SCARED_TIMER] = lastDur[SCARED_TIMER])
        /\ lastOp' = "expirePath" =>
             (live[PATH_TIMER] /\ sinceArm[PATH_TIMER] = lastDur[PATH_TIMER])]_vars

C5_Witness ==
  /\ lastOp = "setGhostsScared"
  /\ SCARED_TIMER \in oldArmed
  /\ sinceArm[SCARED_TIMER] = 0
  /\ lastDur[SCARED_TIMER] = MaxDur

\* C6: a scared expiry leaves ghostsScared false, publishes PowerModeEnded and
\* leaves the streak at 0, so a GhostEaten right after it scores the first
\* table value; a path expiry leaves showPath false and publishes nothing.
C6_ExpiryEffects ==
  /\ [](lastOp = "expireScared" =>
          (~ghostsScared /\ published = <<"PowerModeEnded">> /\ consecutiveGhosts = 0))
  /\ [](lastOp = "expirePath" => (~showPath /\ published = <<>>))
  /\ [][(lastOp = "expireScared" /\ lastOp' = "notifyGhostEaten") => lastPoints2' = 2]_vars

C6_Witness == lastOp = "expireScared" /\ oldStreak > 0 /\ consecutiveGhosts = 0

(* ============================ ScoreSystem ============================== *)
\* the event sequence of the reference scenario
Scenario == <<"scDot", "scPelletPower", "scGhostEaten", "scGhostEaten", "scGhostEaten",
              "scPowerModeEnded", "scGhostEaten">>

ScenStep(n, op) ==
  IF n >= 0 /\ n < Len(Scenario) /\ Scenario[n + 1] = op THEN n + 1 ELSE -1

ScObserve(op) ==
  /\ lastOp' = op
  /\ oldStreak' = consecutiveGhosts
  /\ scen' = IF op = "scReset" THEN 0 ELSE ScenStep(scen, op)
  /\ UNCHANGED <<status, level, ghostsScared, showPath, callbackSet, timers, timeouts,
                 ret, cbCalls, oldArmed, sinceArm, lastDur, live, expiries, busVars, pfVars,
                 restVars>>

\* ScoreSystem.addScore: accumulate and publish ScoreChanged
addScore(evt, points2) ==
  /\ score2 + points2 <= ScMaxScore2
  /\ score2' = score2 + points2
  /\ lastPoints2' = points2
  /\ published' = <<evt, "ScoreChanged">>

\* a listener that does nothing for this event
ScIgnored(evt) ==
  /\ published' = <<evt>>
  /\ lastPoints2' = 0
  /\ UNCHANGED <<score2, consecutiveGhosts>>

ScNotifyDot ==
  /\ ScObserve("scDot")
  /\ addScore("DotCollected", DotValue2)
  /\ UNCHANGED <<consecutiveGhosts, streakK>>

\* the PelletCollected listener: power first, else path, else nothing
ScNotifyPellet(isPowerPellet, isPathPellet) ==
  IF isPowerPellet
    THEN /\ ScObserve("scPelletPower")
         /\ addScore("PelletCollected", PowerPelletValue2)
         /\ consecutiveGhosts' = resetConsecutiveGhosts(consecutiveGhosts)
         /\ streakK' = 0
    ELSE IF isPathPellet
      THEN /\ ScObserve("scPelletPath")
           /\ addScore("PelletCollected", PathPelletValue2)
           /\ UNCHANGED <<consecutiveGhosts, streakK>>
      ELSE /\ ScObserve("scPelletPlain")
           /\ ScIgnored("PelletCollected")
           /\ UNCHANGED streakK

\* the GhostEaten listener: addGhostScore
ScNotifyGhostEaten ==
  /\ ScObserve("scGhostEaten")
  /\ addScore("GhostEaten", GhostPoints2(consecutiveGhosts))
  /\ consecutiveGhosts' = consecutiveGhosts + 1
  /\ streakK' = streakK + 1

ScNotifyFruit ==
  /\ ScObserve("scFruit")
  /\ addScore("FruitCollected", FruitValue2)
  /\ UNCHANGED <<consecutiveGhosts, streakK>>

ScNotifyLevelCompleted ==
  /\ ScObserve("scLevelCompleted")
  /\ addScore("LevelCompleted", LevelCompletionValue2)
  /\ UNCHANGED <<consecutiveGhosts, streakK>>

ScNotifyPowerModeEnded ==
  /\ ScObserve("scPowerModeEnded")
  /\ consecutiveGhosts' = resetConsecutiveGhosts(consecutiveGhosts)
  /\ published' = <<"PowerModeEnded">>
  /\ lastPoints2' = 0
  /\ streakK' = 0
  /\ UNCHANGED score2

\* resetConsecutiveGhosts() called directly, as GameState.setGhostsScared does
ScResetConsecutive ==
  /\ ScObserve("scResetConsecutive")
  /\ consecutiveGhosts' = resetConsecutiveGhosts(consecutiveGhosts)
  /\ published' = <<>>
  /\ lastPoints2' = 0
  /\ streakK' = 0
  /\ UNCHANGED score2

\* ScoreSystem.reset
ScReset ==
  /\ ScObserve("scReset")
  /\ score2' = 0
  /\ consecutiveGhosts' = 0
  /\ published' = <<>>
  /\ lastPoints2' = 0
  /\ streakK' = 0

InitScore ==
  /\ GsInit
  /\ callbackSet = FALSE
  /\ BusInit
  /\ PfInit
  /\ RestIdle

NextScore ==
  \/ ScNotifyDot
  \/ \E pw \in BOOLEAN, pt \in BOOLEAN : ScNotifyPellet(pw, pt)
  \/ ScNotifyGhostEaten
  \/ ScNotifyFruit
  \/ ScNotifyLevelCompleted
  \/ ScNotifyPowerModeEnded
  \/ ScResetConsecutive
  \/ ScReset

SpecScore == InitScore /\ [][NextScore]_vars

\* C9: a dot adds 0.5, a power pellet adds 1 and resets the streak, the k-th
\* GhostEaten since the last streak reset adds [1,2,4,8][min(k-1,3)], and the
\* reference sequence dot, power pellet, ghost x3, PowerModeEnded, ghost
\* totals 9.5.
C9_ScoreTable ==
  /\ [][/\ lastOp' = "scDot" => score2' = score2 + 1
        /\ lastOp' = "scPelletPower" => (score2' = score2 + 2 /\ consecutiveGhosts' = 0)
        /\ lastOp' = "scGhostEaten" =>
             /\ lastPoints2' = <<2, 4, 8, 16>>[Min(streakK' - 1, 3) + 1]
             /\ score2' = score2 + lastPoints2']_vars
  /\ [](scen = Len(Scenario) => score2 = 19)

C9_Witness == scen = Len(Scenario) /\ score2 = 19 /\ lastPoints2 = 2 /\ streakK = 1

(* ============================ EventMediator ============================ *)
\* Map.has / Map.get on EventMediator.listeners
has(ls, t) == ls[t].has

get(ls, t) == ls[t].q

\* Array.prototype.indexOf: first position (1-based) of l, 0 when absent
indexOf(q, l) ==
  IF \E i \in 1..Len(q) : q[i] = l
    THEN CHOOSE i \in 1..Len(q) : q[i] = l /\ \A j \in 1..(i - 1) : q[j] # l
    ELSE 0

\* Array.prototype.splice(index, 1)
splice1(q, i) == SubSeq(q, 1, i - 1) \o SubSeq(q, i + 1, Len(q))

\* EventMediator.register: create the list when missing, push the listener
register(ls, t, l) ==
  [ls EXCEPT ![t] = [has |-> TRUE, q |-> Append(get(ls, t), l)]]

\* EventMediator.unregister: remove the first occurrence, if any
unregister(ls, t, l) ==
  IF ~has(ls, t) THEN ls
  ELSE IF indexOf(get(ls, t), l) = 0 THEN ls
  ELSE [ls EXCEPT ![t].q = splice1(@, indexOf(get(ls, t), l))]

CanRegister(ls, t) == Len(get(ls, t)) < MaxRegs

BusObserve(op) ==
  /\ lastOp' = op
  /\ UNCHANGED <<status, level, ghostsScared, showPath, callbackSet, timers, timeouts,
                 ret, cbCalls, published, oldArmed, oldStreak, sinceArm, lastDur, live,
                 expiries, scVars, scHist, pfVars, restVars>>

BusRegister(t, l) ==
  /\ ~disp.active
  /\ CanRegister(listeners, t)
  /\ BusObserve("busRegister")
  /\ listeners' = register(listeners, t, l)
  /\ disp' = BusIdle

BusUnregister(t, l) ==
  /\ ~disp.active
  /\ BusObserve("busUnregister")
  /\ listeners' = unregister(listeners, t, l)
  /\ disp' = BusIdle

\* EventMediator.notify is entered: return at once without a list for the
\* type, else start iterating the list itself (for...of over the live array)
BusNotify(t) ==
  /\ ~disp.active
  /\ UNCHANGED listeners
  /\ IF has(listeners, t)
       THEN /\ BusObserve("busNotify")
            /\ disp' = [active |-> TRUE, type |-> t, idx |-> 0,
                        snapshot |-> get(listeners, t), invoked |-> <<>>, mutated |-> FALSE]
       ELSE /\ BusObserve("busReturn")
            /\ disp' = [BusIdle EXCEPT !.type = t]

\* what a listener may do to the bus while it runs
ListenerActs ==
  {[kind |-> "none", type |-> "none", l |-> 0]}
    \cup {[kind |-> k, type |-> t, l |-> l] :
            k \in {"register", "unregister"}, t \in BusTypes, l \in ListenerIds}

AfterAct(ls, a) ==
  IF a.kind = "register" THEN register(ls, a.type, a.l)
  ELSE IF a.kind = "unregister" THEN unregister(ls, a.type, a.l)
  ELSE ls

\* one turn of the for...of loop: the array iterator yields the element at
\* its index in the array as it is now, and the listener runs
BusInvoke(a) ==
  /\ disp.active
  /\ disp.idx < Len(get(listeners, disp.type))
  /\ a.kind = "register" => CanRegister(listeners, a.type)
  /\ BusObserve("busInvoke")
  /\ listeners' = AfterAct(listeners, a)
  /\ disp' = [disp EXCEPT !.idx = @ + 1,
                          !.invoked = Append(@, get(listeners, disp.type)[disp.idx + 1]),
                          !.mutated = @ \/ (a.type = disp.type /\ listeners' # listeners)]

\* the iterator is exhausted: notify returns
BusReturn ==
  /\ disp.active
  /\ disp.idx >= Len(get(listeners, disp.type))
  /\ BusObserve("busReturn")
  /\ disp' = [disp EXCEPT !.active = FALSE]
  /\ UNCHANGED listeners

InitBus ==
  /\ GsInit
  /\ callbackSet = FALSE
  /\ BusInit
  /\ PfInit
  /\ RestIdle

NextBus ==
  \/ \E t \in BusTypes, l \in ListenerIds : BusRegister(t, l)
  \/ \E t \in BusTypes, l \in ListenerIds : BusUnregister(t, l)
  \/ \E t \in BusTypes : BusNotify(t)
  \/ \E a \in ListenerActs : BusInvoke(a)
  \/ BusReturn

SpecBus == InitBus /\ [][NextBus]_vars

\* C7: when notify(e) returns it has invoked exactly the listeners registered
\* for e.type when it was called, once per registration, in registration order.
C7_NotifyInvokesRegistered ==
  lastOp = "busReturn" => disp.invoked = disp.snapshot

\* C8: a dispatch during which a listener registered or unregistered for the
\* same type still invokes exactly the list as it was when notify was called.
C8_DispatchUnaffected ==
  (lastOp = "busReturn" /\ disp.mutated) => disp.invoked = disp.snapshot

\* a dispatch whose listeners leave the list of its type alone invokes exactly
\* that list, in order
BusUndisturbedDispatch ==
  (lastOp = "busReturn" /\ ~disp.mutated) => disp.invoked = disp.snapshot

(* ============================== PathFinder ============================= *)
\* LevelLoader.connectNodes: above, left, right, below, those that exist
neighbours(n) ==
  SelectSeq(<< <<n[1], n[2] - 1>>, <<n[1] - 1, n[2]>>, <<n[1] + 1, n[2]>>, <<n[1], n[2] + 1>> >>,
            LAMBDA c : c \in Cells)

Range(q) == {q[i] : i \in 1..Len(q)}

Reverse(q) == [i \in 1..Len(q) |-> q[Len(q) + 1 - i]]

\* a neighbour is taken whatever its passability
ExpandableThroughWalls(n, visited) == n \notin visited

\* the test of the forEach body: passable and not yet visited
Expandable(n, visited) == passable[n] /\ n \notin visited

\* walkBack that leaves the first node out of the result
RECURSIVE walkBackDropsFrom(_, _, _, _)
walkBackDropsFrom(current, from, prv, fuel) ==
  IF current = from THEN <<>>
  ELSE IF current = NoNode \/ fuel = 0 THEN <<NoNode>>
  ELSE walkBackDropsFrom(prv[current], from, prv, fuel - 1) \o <<current>>

\* path reconstruction: follow prev from the destination back to from, then
\* reverse; a null prev ends it with the marker NoNode (a TypeError in the code)
RECURSIVE walkBack(_, _, _, _)
walkBack(current, from, prv, fuel) ==
  IF current = from THEN <<from>>
  ELSE IF current = NoNode \/ fuel = 0 THEN <<NoNode>>
  ELSE walkBack(prv[current], from, prv, fuel - 1) \o <<current>>

\* the taken neighbours go to the end of the list, where pop takes the next one
pushAll(ns, rest) == rest \o ns

\* queue.unshift(n) for every taken neighbour, in the forEach order
unshiftAll(ns, rest) == Reverse(ns) \o rest

\* prev is assigned only where it is still null
setPrevIfNull(prv, taken, element) ==
  [c \in Cells |-> IF c \in taken /\ prv[c] = NoNode THEN element ELSE prv[c]]

\* n.prev = element for every taken neighbour
setPrev(prv, taken, element) ==
  [c \in Cells |-> IF c \in taken THEN element ELSE prv[c]]

\* the main loop of constructPathBFS: pop from the end, mark visited, stop at
\* the destination, else set prev of and unshift every expandable neighbour;
\* written collects the nodes whose prev the loop has assigned
RECURSIVE bfsLoop(_, _, _, _, _, _, _)
bfsLoop(queue, visited, prv, written, from, to, iter) ==
  IF Len(queue) = 0
    THEN [path |-> <<>>, prev |-> prv, iter |-> iter, written |-> written]
    ELSE LET element == queue[Len(queue)]
             rest == SubSeq(queue, 1, Len(queue) - 1)
             seen == visited \cup {element}
         IN  IF element = to
               THEN [path |-> walkBack(element, from, prv, Cardinality(Cells)),
                     prev |-> prv, iter |-> iter + 1, written |-> written]
               ELSE LET ns == SelectSeq(neighbours(element), LAMBDA n : Expandable(n, seen))
                        taken == Range(ns)
                    IN  bfsLoop(unshiftAll(ns, rest), seen, setPrev(prv, taken, element),
                                written \cup taken, from, to, iter + 1)

\* PathFinder.constructPathBFS
constructPathBFS(from, to, prv) == bfsLoop(<<from>>, {}, prv, {}, from, to, 0)

PfSame ==
  UNCHANGED <<passable, status, level, ghostsScared, showPath, callbackSet, timers,
              timeouts, ret, cbCalls, published, oldArmed, oldStreak, sinceArm, lastDur,
              live, expiries, scVars, scHist, busVars, restVars>>

\* one call of constructPathBFS, its arguments and result recorded
PfSearch(from, to) ==
  /\ ~pfDone
  /\ \E r \in {constructPathBFS(from, to, prev)} :
       /\ pfPath' = r.path
       /\ prev' = r.prev
       /\ pfIter' = r.iter
       /\ pfWritten' = r.written
       /\ pfStale' = \E c \in (Range(r.path) \cap Cells) \ {from} : prev[c] \notin {NoNode, r.prev[c]}
  /\ pfFrom' = from
  /\ pfTo' = to
  /\ pfDone' = TRUE
  /\ lastOp' = "constructPathBFS"
  /\ PfSame

\* an earlier call of constructPathBFS (any ghost, any tick): only the prev
\* fields it leaves behind are kept
PfEarlierSearch(from, to) ==
  /\ ~pfDone
  /\ prev' = constructPathBFS(from, to, prev).prev
  /\ prev' # prev
  /\ lastOp' = "earlierSearch"
  /\ UNCHANGED <<pfFrom, pfTo, pfPath, pfIter, pfDone, pfWritten, pfStale>>
  /\ PfSame

\* a level graph: any passability with at most MaxWalls impassable nodes
InitPath ==
  /\ GsInit
  /\ callbackSet = FALSE
  /\ BusInit
  /\ passable \in {f \in [Cells -> BOOLEAN] : Cardinality({c \in Cells : ~f[c]}) <= MaxWalls}
  /\ PfFresh
  /\ RestIdle

NextPath == \E from \in Cells, to \in Cells : PfSearch(from, to)

SpecPath == InitPath /\ [][NextPath]_vars

\* searches that follow any number of earlier searches on the same graph
NextPrev ==
  \/ \E from \in Cells, to \in Cells : PfEarlierSearch(from, to)
  \/ \E from \in Cells, to \in Cells : PfSearch(from, to)

SpecPrev == InitPath /\ [][NextPrev]_vars

\* the nodes a chain of passable neighbours connects to from
RECURSIVE Closure(_)
Closure(S) ==
  LET T == S \cup {c \in Cells : passable[c] /\ \E n \in S : c \in Range(neighbours(n))}
  IN  IF T = S THEN S ELSE Closure(T)

Connected(from, to) == to \in Closure({from})

\* C10: constructPathBFS(n, n) is exactly [n], and the result is empty
\* whenever no chain of passable neighbours connects from to to.
C10_SelfAndUnreachable ==
  pfDone =>
    /\ pfFrom = pfTo => pfPath = <<pfFrom>>
    /\ ~Connected(pfFrom, pfTo) => pfPath = <<>>

C10_Witness ==
  /\ pfDone
  /\ pfFrom # pfTo
  /\ passable[pfFrom] /\ passable[pfTo]
  /\ ~Connected(pfFrom, pfTo)
  /\ pfIter > 1
  /\ pfPath = <<>>

\* C11: the main loop of constructPathBFS takes at most as many nodes from the
\* work list as the graph has nodes, for every pair of nodes, reachable or not.
C11_IterationsWithinNodeCount ==
  pfDone => pfIter <= Cardinality(Cells)

Adjacent(a, b) == b \in Range(neighbours(a))

\* C12: a non-empty result starts at from, ends at to, steps between linked
\* neighbours, is passable after its first node and repeats no node.
C12_ResultIsPath ==
  (pfDone /\ pfPath # <<>>) =>
    /\ pfPath[1] = pfFrom
    /\ pfPath[Len(pfPath)] = pfTo
    /\ \A i \in 1..(Len(pfPath) - 1) : Adjacent(pfPath[i], pfPath[i + 1])
    /\ \A i \in 2..Len(pfPath) : passable[pfPath[i]]
    /\ \A i \in 1..Len(pfPath) : \A j \in 1..Len(pfPath) : pfPath[i] = pfPath[j] => i = j

\* a path of four nodes or more around a wall, found after other nodes were tried
C12_Witness ==
  /\ pfDone
  /\ Len(pfPath) >= 4
  /\ \E c \in Cells : ~passable[c]
  /\ pfIter > Len(pfPath)

\* the number of nodes of a shortest chain of passable neighbours from the
\* nodes of S (reached with k nodes) to the node to; 0 when there is none
RECURSIVE Layers(_, _, _)
Layers(S, to, k) ==
  IF to \in S THEN k
  ELSE LET T == S \cup {c \in Cells : passable[c] /\ \E n \in S : Adjacent(n, c)}
       IN  IF T = S THEN 0 ELSE Layers(T, to, k + 1)

ShortestLen(from, to) == Layers({from}, to, 1)

\* C13: when to is reachable from from, the result has the least possible
\* number of nodes among the passable paths from from to to.
C13_ShortestPath ==
  (pfDone /\ Connected(pfFrom, pfTo)) => Len(pfPath) = ShortestLen(pfFrom, pfTo)

\* a reachable destination found after some node was taken from the work list
\* more than once
C13_Witness ==
  /\ pfDone
  /\ Connected(pfFrom, pfTo)
  /\ Len(pfPath) >= 3
  /\ pfIter > Cardinality(pfWritten) + 1
  /\ \E c \in Cells : ~passable[c]

\* C14: the result of a search is the one it gives on fresh nodes, whatever
\* prev holds when it starts, and every prev link the reconstruction follows
\* was assigned during this search.
C14_PrevIndependent ==
  pfDone =>
    /\ pfPath = constructPathBFS(pfFrom, pfTo, [c \in Cells |-> NoNode]).path
    /\ \A i \in 2..Len(pfPath) : pfPath[i] \in pfWritten

\* a search whose result runs over nodes that held other prev links before
C14_Witness ==
  /\ pfDone
  /\ pfStale
  /\ Len(pfPath) >= 3

(* ============================== LevelLoader ============================ *)
\* level texts: r rows of c characters, one row possibly one character short,
\* every cell a dot except at most MaxMarks cells holding 'S' or '#'
LevelChars == {"S", "#"}

\* the text whose cells number idx[a] (row by row, from 0) hold chs[a]
RowsOf(r, c, short, idx, chs) ==
  [i \in 1..r |->
     [j \in 1..(IF i = short THEN c - 1 ELSE c) |->
        LET k == (i - 1) * c + (j - 1)
        IN  IF \E a \in DOMAIN idx : idx[a] = k
              THEN chs[CHOOSE a \in DOMAIN idx : idx[a] = k]
              ELSE "."]]

IsLevelText(rows) ==
  \E r \in 2..MaxRows, c \in 2..MaxCols :
    \E short \in 0..r, n \in 0..MaxMarks :
      \E idx \in [1..n -> 0..(r * c - 1)], chs \in [1..n -> LevelChars] :
        /\ \A a \in 1..(n - 1) : idx[a] < idx[a + 1]
        /\ rows = RowsOf(r, c, short, idx, chs)

\* the character of the cell at column j, row i (both from 0)
CharAt(rows, cell) == rows[cell[2] + 1][cell[1] + 1]

\* the cells the two nested loops visit, in their order: row by row, left to right
RECURSIVE ScanOrder(_, _, _)
ScanOrder(rows, i, j) ==
  IF i >= Len(rows) THEN <<>>
  ELSE IF j >= Len(rows[i + 1]) THEN ScanOrder(rows, i + 1, 0)
  ELSE << <<j, i>> >> \o ScanOrder(rows, i, j + 1)

\* validateLevelDimensions without the minimum-size test
validateIrregularOnly(rows) ==
  \A i \in 2..Len(rows) : Len(rows[i]) = Len(rows[1])

\* LevelLoader.validateLevelDimensions: TRUE when it does not throw
validateLevelDimensions(rows) ==
  /\ \A i \in 2..Len(rows) : Len(rows[i]) = Len(rows[1])
  /\ ~(Len(rows) < 3 \/ Len(rows[1]) < 3)

\* a node is passable only on a dot
isPassableCharDotOnly(ch) == ch = "."

\* createGraphAndEntities: walls are not passable
isPassableChar(ch) == ch # "#"

\* the start node after the scan: entities.setStartNode(node) at every 'S'
RECURSIVE scanStart(_, _, _, _)
scanStart(rows, cells, k, start) ==
  IF k > Len(cells) THEN start
  ELSE scanStart(rows, cells, k + 1, IF CharAt(rows, cells[k]) = "S" THEN cells[k] ELSE start)

\* the cell pacman is left on after the scan: processTileCharacter('S')
\* repositions it at every 'S'
RECURSIVE scanPacman(_, _, _, _)
scanPacman(rows, cells, k, pos) ==
  IF k > Len(cells) THEN pos
  ELSE scanPacman(rows, cells, k + 1, IF CharAt(rows, cells[k]) = "S" THEN cells[k] ELSE pos)

\* LevelLoader.createGraphAndEntities: one node per cell, keyed by column and row
createGraphAndEntities(rows) ==
  LET cells == ScanOrder(rows, 0, 0)
  IN  [graph |-> [cell \in Range(cells) |-> isPassableChar(CharAt(rows, cell))],
       startNode |-> scanStart(rows, cells, 1, NoNode),
       pacman |-> scanPacman(rows, cells, 1, lvPacman)]

\* LevelLoader.buildLevel
BuildLevel ==
  /\ lastOp # "buildLevel"
  /\ lastOp' = "buildLevel"
  /\ IF ~validateLevelDimensions(lvRows)
       THEN /\ lvError' = "LevelLoadError"
            /\ UNCHANGED <<lvLevel, lvPacman>>
       ELSE \E g \in {createGraphAndEntities(lvRows)} :
              /\ lvPacman' = g.pacman
              /\ IF g.startNode = NoNode
                   THEN /\ lvError' = "LevelLoadError"
                        /\ UNCHANGED lvLevel
                   ELSE /\ lvError' = "none"
                        /\ lvLevel' = [built |-> TRUE, graph |-> g.graph,
                                       startNode |-> g.startNode]
  /\ UNCHANGED <<lvRows, status, level, ghostsScared, showPath, callbackSet, timers,
                 timeouts, ret, cbCalls, published, oldArmed, oldStreak, sinceArm, lastDur,
                 live, expiries, scVars, scHist, busVars, pfVars, rpVars, coVars, esVars,
                 wlVars, ghVars>>

\* a LevelLoader constructed on any of the level texts
InitLevel ==
  /\ GsInit
  /\ callbackSet = FALSE
  /\ BusInit
  /\ PfInit
  /\ IsLevelText(lvRows)
  /\ lvLevel = NoLevel
  /\ lvError = "none"
  /\ lvPacman = NoNode
  /\ RpIdle
  /\ CoIdle
  /\ EsIdle
  /\ WlIdle
  /\ GhIdle

NextLevelLoad == BuildLevel

SpecLevel == InitLevel /\ [][NextLevelLoad]_vars

Rectangular(rows) == \A i \in 1..Len(rows) : Len(rows[i]) = Len(rows[1])

LevelCells(rows) == {<<j, i>> : j \in 0..(Len(rows[1]) - 1), i \in 0..(Len(rows) - 1)}

StartCells(rows) == {cell \in Range(ScanOrder(rows, 0, 0)) : CharAt(rows, cell) = "S"}

\* C15: on a rectangular grid of at least 3 x 3 cells with exactly one 'S',
\* buildLevel returns a Level whose graph has one node per cell, impassable
\* exactly on '#', and whose start node is the 'S' cell.
C15_BuildsValidLevel ==
  (lastOp = "buildLevel" /\ Rectangular(lvRows) /\ Len(lvRows) >= 3 /\ Len(lvRows[1]) >= 3
     /\ Cardinality(StartCells(lvRows)) = 1) =>
    /\ lvError = "none"
    /\ lvLevel.built
    /\ DOMAIN lvLevel.graph = LevelCells(lvRows)
    /\ Cardinality(DOMAIN lvLevel.graph) = Len(lvRows) * Len(lvRows[1])
    /\ \A cell \in LevelCells(lvRows) :
         lvLevel.graph[cell] = FALSE <=> CharAt(lvRows, cell) = "#"
    /\ lvLevel.startNode \in StartCells(lvRows)

C15_Witness ==
  /\ lastOp = "buildLevel"
  /\ Rectangular(lvRows) /\ Len(lvRows) >= 3 /\ Len(lvRows[1]) >= 3
  /\ Cardinality(StartCells(lvRows)) = 1
  /\ \E cell \in LevelCells(lvRows) : CharAt(lvRows, cell) = "#"
  /\ lvLevel.built
  /\ lvLevel.startNode # <<0, 0>>

\* C16: buildLevel throws a LevelLoadError and hands no Level to the caller
\* when a row differs in length from the first, when there are fewer than 3
\* rows or 3 columns, or when no cell is 'S'.
C16_RejectsBadLevel ==
  (lastOp = "buildLevel"
     /\ (~Rectangular(lvRows) \/ Len(lvRows) < 3 \/ Len(lvRows[1]) < 3
           \/ StartCells(lvRows) = {})) =>
    /\ lvError = "LevelLoadError"
    /\ lvLevel = NoLevel

\* a too-small but regular grid with an 'S' was rejected
C16_Witness ==
  /\ lastOp = "buildLevel"
  /\ Rectangular(lvRows)
  /\ Len(lvRows) < 3
  /\ StartCells(lvRows) # {}
  /\ lvError = "LevelLoadError"
  /\ lvLevel = NoLevel

\* the first 'S' of the row-major scan
FirstStart(rows) ==
  LET cells == ScanOrder(rows, 0, 0)
      k == CHOOSE n \in 1..Len(cells) :
             /\ CharAt(rows, cells[n]) = "S"
             /\ \A m \in 1..(n - 1) : CharAt(rows, cells[m]) # "S"
  IN  cells[k]

\* C17: with more than one 'S', the start node and the position given to the
\* player are those of the first 'S' in row-major order.
C17_FirstStartWins ==
  (lastOp = "buildLevel" /\ lvLevel.built /\ Cardinality(StartCells(lvRows)) > 1) =>
    /\ lvLevel.startNode = FirstStart(lvRows)
    /\ lvPacman = FirstStart(lvRows)

(* ========================== Level.getRandomPoint ======================= *)
RpSame ==
  UNCHANGED <<status, level, ghostsScared, showPath, callbackSet, timers, timeouts, ret,
              cbCalls, published, oldArmed, oldStreak, sinceArm, lastDur, live, expiries,
              scVars, scHist, busVars, pfVars, lvVars, coVars, esVars, wlVars, ghVars>>

\* the test inside the loop body, after attempts++: attempts >= maxAttempts
exhausted(attempts) == attempts >= maxAttempts

\* getRandomPoint is called: attempts = 0, the do-while loop is entered
RpCall ==
  /\ rpState = "idle"
  /\ rpState' = "drawing"
  /\ rpAttempts' = 0
  /\ rpPoint' = NoNode
  /\ lastOp' = "getRandomPoint"
  /\ RpSame

\* one pass of the loop body with the draw landing on cell c: count it, throw
\* when the cap is reached, else leave the loop if the node is passable
RpDraw(c) ==
  /\ rpState = "drawing"
  /\ rpAttempts' = rpAttempts + 1
  /\ IF exhausted(rpAttempts + 1)
       THEN rpState' = "failed" /\ rpPoint' = c
       ELSE IF passable[c]
              THEN rpState' = "returned" /\ rpPoint' = c
              ELSE rpState' = "drawing" /\ rpPoint' = NoNode
  /\ lastOp' = "draw"
  /\ RpSame

\* a level graph as for the path search, getRandomPoint not yet called
InitRandom ==
  /\ GsInit
  /\ callbackSet = FALSE
  /\ BusInit
  /\ passable \in {f \in [Cells -> BOOLEAN] : Cardinality({c \in Cells : ~f[c]}) <= MaxWalls}
  /\ PfFresh
  /\ RestIdle

NextRandom ==
  \/ RpCall
  \/ \E c \in Cells : RpDraw(c)

SpecRandom == InitRandom /\ [][NextRandom]_vars

\* C18: a returned node is passable, at most 100 draws are made, and the
\* call fails only when all 100 draws hit impassable cells (a passable cell
\* drawn on the 100th attempt is returned).
C18_RandomPointWithinCap ==
  /\ rpState = "returned" => passable[rpPoint]
  /\ rpAttempts <= maxAttempts
  /\ rpState = "failed" => ~passable[rpPoint]

(* ============================ CollisionSystem ========================== *)
PacSpots == {[x |-> 60, y |-> 20], [x |-> 66, y |-> 20], [x |-> 66, y |-> 38]}
GhostSpots == {[x |-> 43, y |-> 20], [x |-> 60, y |-> 50], [x |-> 20, y |-> 60]}
Behaviors == {"chaser", "ambusher"}
DotSpot == [x |-> 60, y |-> 20]
PelletSpot == [x |-> 60, y |-> 60]

Abs(n) == IF n < 0 THEN -n ELSE n

\* CollisionDetector.circlesIntersect: sqrt(dx^2 + dy^2) < r1 + r2, squared
circlesIntersect(a, ra, b, rb) ==
  LET dx == a.x - b.x
      dy == a.y - b.y
  IN  dx * dx + dy * dy < (ra + rb) * (ra + rb)

rectanglesIntersect(rect1, rect2) ==
  /\ rect1.x < rect2.x + rect2.width
  /\ rect1.x + rect1.width > rect2.x
  /\ rect1.y < rect2.y + rect2.height
  /\ rect1.y + rect1.height > rect2.y

\* CollisionDetector.getCollisionInfo: the centre offsets and the half sizes,
\* all doubled so that odd sizes stay whole; the comparisons are the same
getCollisionInfo(rect1, rect2) ==
  LET dx == (2 * rect1.x + rect1.width) - (2 * rect2.x + rect2.width)
      dy == (2 * rect1.y + rect1.height) - (2 * rect2.y + rect2.height)
      width == rect1.width + rect2.width
      height == rect1.height + rect2.height
  IN  [collided |-> Abs(dx) <= width /\ Abs(dy) <= height, dx |-> dx, dy |-> dy,
       crossWidth |-> width * dy, crossHeight |-> height * dx]

getResolutionVector(info) ==
  IF Abs(info.crossWidth) <= Abs(info.crossHeight)
    THEN [normalX |-> IF info.dx < 0 THEN -1 ELSE 1, normalY |-> 0]
    ELSE [normalX |-> 0, normalY |-> IF info.dy < 0 THEN -1 ELSE 1]

\* a resolution that puts the entity against the wall, without the pixel of room
resolveCollisionTouching(wall, p, r, res) ==
  IF res.normalX # 0
    THEN [x |-> IF res.normalX > 0 THEN wall.x + wall.width + r ELSE wall.x - r, y |-> p.y]
    ELSE [x |-> p.x, y |-> IF res.normalY > 0 THEN wall.y + wall.height + r ELSE wall.y - r]

\* a resolution that moves the entity one pixel along the normal
resolveCollisionNudge(wall, p, r, res) ==
  [x |-> p.x + res.normalX, y |-> p.y + res.normalY]

\* Wall.resolveCollision: the position the entity of radius r is moved to
resolveCollision(wall, p, r, res) ==
  IF res.normalX # 0
    THEN [x |-> IF res.normalX > 0 THEN wall.x + wall.width + r + 1 ELSE wall.x - r - 1,
          y |-> p.y]
    ELSE [x |-> p.x,
          y |-> IF res.normalY > 0 THEN wall.y + wall.height + r + 1 ELSE wall.y - r - 1]

\* the rectangle Wall.handleCollision makes of the entity
entityRect(p, r) == [x |-> p.x - r, y |-> p.y - r, width |-> r * 2, height |-> r * 2]

\* Wall.handleCollision: where the entity is once the wall has dealt with it
handleCollision(wall, p, r) ==
  LET info == getCollisionInfo(entityRect(p, r), wall)
  IN  IF info.collided THEN resolveCollision(wall, p, r, getResolutionVector(info)) ELSE p

\* Pacman.asRect
asRect(p) ==
  [x |-> p.x - pacmanRadius, y |-> p.y - pacmanRadius,
   height |-> 2 * pacmanRadius, width |-> 2 * pacmanRadius]

\* the ghostRect of handleGhostCollisions
ghostRect(g) ==
  [x |-> g.x - ghostSize \div 2, y |-> g.y - ghostSize \div 2,
   width |-> ghostSize, height |-> ghostSize]

\* one entry of the pass log: the kind, the ghost and flag it carries, and the
\* player position when it happened
Ev(kind, g, flag, p) == [ev |-> kind, ghost |-> g, flag |-> flag, pac |-> p]

\* Level.removeDot / removePellet / removeGhost: indexOf, then splice if found
removeEntity(q, e) == IF indexOf(q, e) # 0 THEN splice1(q, indexOf(q, e)) ELSE q

\* handleDotCollisions: the backward loop, at index i
RECURSIVE handleDotCollisions(_, _)
handleDotCollisions(s, i) ==
  IF i = 0 THEN s
  ELSE handleDotCollisions(
         IF circlesIntersect(s.pac, pacmanRadius, s.dots[i], dotRadius)
           THEN [s EXCEPT !.log = Append(@, Ev("DotCollected", NoGhost, FALSE, s.pac)),
                          !.dots = removeEntity(@, s.dots[i])]
           ELSE s,
         i - 1)

\* handleWallCollisions: every wall in turn, at index i
RECURSIVE handleWallCollisions(_, _)
handleWallCollisions(s, i) ==
  IF i > Len(CoWalls) THEN s
  ELSE LET info == getCollisionInfo(entityRect(s.pac, pacmanRadius), CoWalls[i])
           to == handleCollision(CoWalls[i], s.pac, pacmanRadius)
       IN  handleWallCollisions(
             IF info.collided
               THEN [s EXCEPT !.pac = to,
                              !.log = Append(@, Ev("WallDisplaced", NoGhost, FALSE, to))]
               ELSE s,
             i + 1)

\* a forward loop over the pellets: the pellet that takes the place of a
\* removed one is never looked at
RECURSIVE forwardPellets(_, _)
forwardPellets(s, i) ==
  IF i > Len(s.pellets) THEN s
  ELSE forwardPellets(
         IF circlesIntersect(s.pac, pacmanRadius, s.pellets[i], pelletRadius)
           THEN [s EXCEPT !.log = Append(@, Ev("PelletCollected", NoGhost,
                                               s.pellets[i].kind = "power", s.pac)),
                          !.pellets = removeEntity(@, s.pellets[i])]
           ELSE s,
         i + 1)

handlePelletCollisionsForward(s, i) == forwardPellets(s, 1)

\* handlePelletCollisions: the backward loop, at index i
RECURSIVE handlePelletCollisions(_, _)
handlePelletCollisions(s, i) ==
  IF i = 0 THEN s
  ELSE handlePelletCollisions(
         IF circlesIntersect(s.pac, pacmanRadius, s.pellets[i], pelletRadius)
           THEN [s EXCEPT !.log = Append(@, Ev("PelletCollected", NoGhost,
                                               s.pellets[i].kind = "power", s.pac)),
                          !.pellets = removeEntity(@, s.pellets[i])]
           ELSE s,
         i - 1)

\* Ghost.die: a new Ghost with the same position, size, colour and behaviour
die(g) == [g EXCEPT !.gen = @ + 1]

\* the replacement is put into the collection at once
scheduleGhostRespawnNow(respawns, ghost, delay) ==
  respawns \cup {[ghost |-> ghost, delay |-> 0, waited |-> 0, added |-> FALSE]}

\* scheduleGhostRespawn: setTimeout(addGhost, delay)
scheduleGhostRespawn(respawns, ghost, delay) ==
  respawns \cup {[ghost |-> ghost, delay |-> delay, waited |-> 0, added |-> FALSE]}

\* handleGhostDeath that schedules the replacement and leaves the eaten ghost
\* in the collection
handleGhostDeathKeeps(s, g, throwAt) ==
  IF s.dies + 1 = throwAt
    THEN [s EXCEPT !.dies = @ + 1, !.error = "PathfindingError"]
    ELSE [s EXCEPT !.dies = @ + 1,
                   !.log = Append(@, Ev("GhostEaten", g, FALSE, s.pac)),
                   !.respawns = scheduleGhostRespawn(@, die(g), RespawnDelay)]

\* handleGhostDeath; getRandomPoint, called by Ghost.die, throws in the
\* throwAt-th call of the pass
handleGhostDeath(s, g, throwAt) ==
  IF s.dies + 1 = throwAt
    THEN [s EXCEPT !.dies = @ + 1, !.error = "PathfindingError"]
    ELSE [s EXCEPT !.dies = @ + 1,
                   !.log = Append(@, Ev("GhostEaten", g, FALSE, s.pac)),
                   !.ghosts = removeEntity(@, g),
                   !.respawns = scheduleGhostRespawn(@, die(g), RespawnDelay)]

\* LifeComponent.die: the life component afterwards and the value returned
lifeDie(l) ==
  IF l.invincible THEN [life |-> l, gameOver |-> FALSE]
  ELSE IF l.lives - 1 < 0
         THEN [life |-> [l EXCEPT !.lives = @ - 1], gameOver |-> TRUE]
         ELSE [life |-> [lives |-> l.lives - 1, invincible |-> TRUE, left |-> InvincibleMs],
               gameOver |-> FALSE]

\* resetPacmanPosition: the centre of the start node's tile
startCentre ==
  [x |-> CoStart.x * tileSize + tileSize \div 2, y |-> CoStart.y * tileSize + tileSize \div 2]

\* handlePacmanDeath
handlePacmanDeath(s) ==
  LET r == lifeDie(s.life)
  IN  [s EXCEPT !.life = r.life,
                !.log = Append(@, Ev("PacmanDied", NoGhost, r.gameOver, s.pac)),
                !.pac = IF r.gameOver THEN @ ELSE startCentre]

\* handleGhostCollisions: the backward loop, at index i; an exception leaves it
RECURSIVE handleGhostCollisions(_, _, _, _)
handleGhostCollisions(s, ghostsScaredArg, throwAt, i) ==
  IF i = 0 \/ s.error # "none" THEN s
  ELSE LET g == s.ghosts[i]
           told == [s EXCEPT !.log = Append(@, Ev("GhostCollided", g, ghostsScaredArg, s.pac))]
       IN  handleGhostCollisions(
             IF rectanglesIntersect(asRect(s.pac), ghostRect(g))
               THEN IF ghostsScaredArg THEN handleGhostDeath(told, g, throwAt)
                                       ELSE handlePacmanDeath(told)
               ELSE s,
             ghostsScaredArg, throwAt, i - 1)

\* the phases with the walls resolved last
updateWallsLast(s, ghostsScaredArg, throwAt) ==
  LET a == handleDotCollisions(s, Len(s.dots))
      c == handlePelletCollisions(a, Len(a.pellets))
      e == handleGhostCollisions(c, ghostsScaredArg, throwAt, Len(c.ghosts))
  IN  handleWallCollisions(e, 1)

\* CollisionSystem.update
update(s, ghostsScaredArg, throwAt) ==
  LET a == handleDotCollisions(s, Len(s.dots))
      b == handleWallCollisions(a, 1)
      c == handlePelletCollisions(b, Len(b.pellets))
  IN  handleGhostCollisions(c, ghostsScaredArg, throwAt, Len(c.ghosts))

CoSame ==
  UNCHANGED <<status, level, ghostsScared, showPath, callbackSet, timers, timeouts, ret,
              cbCalls, published, oldArmed, oldStreak, sinceArm, lastDur, live, expiries,
              scVars, scHist, busVars, pfVars, lvVars, rpVars, esVars, wlVars, ghVars>>

\* one CollisionSystem.update call with its argument; the getRandomPoint call
\* of the throwAt-th ghost death fails (0: none does)
CoUpdate(ghostsScaredArg, throwAt) ==
  /\ coPasses < MaxPasses
  /\ \E r \in {update([pac |-> coPac, dots |-> coDots, pellets |-> coPellets,
                       ghosts |-> coGhosts, life |-> coLife, respawns |-> coRespawns,
                       log |-> <<>>, dies |-> 0, error |-> "none"],
                      ghostsScaredArg, throwAt)} :
       /\ coPac' = r.pac
       /\ coDots' = r.dots
       /\ coPellets' = r.pellets
       /\ coGhosts' = r.ghosts
       /\ coLife' = r.life
       /\ coRespawns' = r.respawns
       /\ coLog' = r.log
       /\ coPre' = [scared |-> ghostsScaredArg, pac |-> coPac,
                    life |-> coLife, dots |-> coDots, pellets |-> coPellets,
                    ghosts |-> coGhosts, error |-> r.error]
  /\ coPasses' = coPasses + 1
  /\ lastOp' = "collisionUpdate"
  /\ CoSame

\* the time left on the armed timeouts of the scene
CoLefts ==
  {r.delay - r.waited : r \in {q \in coRespawns : ~q.added}}
    \cup (IF coLife.left >= 0 THEN {coLife.left} ELSE {})

\* time passes until the next timeout is due; a due timeout runs before time
\* passes again
CoTick ==
  /\ CoLefts # {}
  /\ \A t \in CoLefts : t > 0
  /\ \E dt \in CoLefts :
       /\ \A t \in CoLefts : dt <= t
       /\ coRespawns' = {IF r.added THEN r ELSE [r EXCEPT !.waited = @ + dt] : r \in coRespawns}
       /\ coLife' = IF coLife.left > 0 THEN [coLife EXCEPT !.left = @ - dt] ELSE coLife
  /\ lastOp' = "collisionTick"
  /\ UNCHANGED <<coPac, coDots, coPellets, coGhosts, coLog, coPre, coPasses>>
  /\ CoSame

\* the timeout of scheduleGhostRespawn runs: levelAccessor.addGhost(ghost)
CoRespawn ==
  /\ \E r \in coRespawns :
       /\ ~r.added
       /\ r.waited >= r.delay
       /\ coGhosts' = Append(coGhosts, r.ghost)
       /\ coRespawns' = (coRespawns \ {r}) \cup {[r EXCEPT !.added = TRUE]}
  /\ lastOp' = "respawn"
  /\ UNCHANGED <<coPac, coDots, coPellets, coLife, coLog, coPre, coPasses>>
  /\ CoSame

\* the timeout of setInvincible runs
CoInvincibleEnds ==
  /\ coLife.left = 0
  /\ coLife' = [coLife EXCEPT !.invincible = FALSE, !.left = -1]
  /\ lastOp' = "invincibleEnds"
  /\ UNCHANGED <<coPac, coDots, coPellets, coGhosts, coRespawns, coLog, coPre, coPasses>>
  /\ CoSame

\* a level in play before a collision pass: the player on a spot of its tile,
\* ghosts on their lanes, the dot and the power pellet eaten or not
InitCollide ==
  /\ GsInit
  /\ callbackSet = FALSE
  /\ BusInit
  /\ PfInit
  /\ LvIdle
  /\ RpIdle
  /\ EsIdle
  /\ WlIdle
  /\ GhIdle
  /\ coPac \in PacSpots
  /\ coDots \in {<<>>, <<DotSpot>>}
  /\ coPellets \in {<<>>, <<[x |-> PelletSpot.x, y |-> PelletSpot.y, kind |-> "power"]>>}
  /\ \E k \in 0..MaxGhosts :
       \E sp \in [1..k -> GhostSpots] :
         \E bh \in [1..k -> Behaviors] :
           coGhosts = [i \in 1..k |-> [id |-> i, gen |-> 0, x |-> sp[i].x, y |-> sp[i].y,
                                       behavior |-> bh[i]]]
  /\ \E n \in 0..InitialLives : coLife = [lives |-> n, invincible |-> FALSE, left |-> -1]
  /\ coRespawns = {}
  /\ coLog = <<>>
  /\ coPre = NoPre
  /\ coPasses = 0

NextCollide ==
  \/ \E a \in BOOLEAN, k \in 0..MaxGhosts : CoUpdate(a, k)
  \/ CoTick
  \/ CoRespawn
  \/ CoInvincibleEnds

SpecCollide == InitCollide /\ [][NextCollide]_vars

\* the phase an entry of the pass log belongs to
Rank(e) ==
  CASE e.ev = "DotCollected" -> 1
    [] e.ev = "WallDisplaced" -> 2
    [] e.ev = "PelletCollected" -> 3
    [] OTHER -> 4

\* the player position of the last pass once its walls were resolved
AfterWalls == handleWallCollisions([pac |-> coPre.pac, log |-> <<>>], 1).pac

Overlaps(p, g) == rectanglesIntersect(asRect(p), ghostRect(g))

\* C19: in the log of a pass every DotCollected precedes every wall
\* displacement, every wall displacement precedes every PelletCollected and
\* every PelletCollected precedes every GhostCollided, GhostEaten and
\* PacmanDied; the pellet and ghost tests read the position the walls left:
\* the pellets collected are those the resolved position touches and the
\* first ghost told of a collision overlaps the resolved position.
C19_PhaseOrder ==
  coPasses > 0 =>
    /\ \A i \in 1..Len(coLog) : \A j \in 1..Len(coLog) :
         i < j => Rank(coLog[i]) <= Rank(coLog[j])
    /\ \A i \in 1..Len(coLog) :
         coLog[i].ev = "PelletCollected" => coLog[i].pac = AfterWalls
    /\ coPellets = SelectSeq(coPre.pellets,
                     LAMBDA p : ~circlesIntersect(AfterWalls, pacmanRadius, p, pelletRadius))
    /\ \A i \in 1..Len(coLog) :
         (coLog[i].ev = "GhostCollided" /\ \A j \in 1..(i - 1) : Rank(coLog[j]) < 4)
           => (coLog[i].pac = AfterWalls /\ Overlaps(AfterWalls, coLog[i].ghost))
    /\ (\A i \in 1..Len(coLog) : coLog[i].ev # "GhostCollided")
         => \A k \in 1..Len(coPre.ghosts) : ~Overlaps(AfterWalls, coPre.ghosts[k])

\* a pass in which a dot is collected, a wall moves the player, the pellet is
\* collected and a ghost is met that the player did not overlap before the wall
\* moved it
C19_Witness ==
  /\ lastOp = "collisionUpdate"
  /\ AfterWalls # coPre.pac
  /\ \A k \in 1..4 : \E i \in 1..Len(coLog) : Rank(coLog[i]) = k
  /\ \E i \in 1..Len(coLog) :
       coLog[i].ev = "GhostCollided" /\ ~Overlaps(coPre.pac, coLog[i].ghost)

\* the entries of the pass log that tell of a ghost met while scared
ScaredMeets == {i \in 1..Len(coLog) : coLog[i].ev = "GhostCollided" /\ coLog[i].flag}

\* the ghost of log entry i was eaten: GhostEaten follows at once, the ghost
\* is out of the collection, and a new ghost with its position and behaviour
\* waits on a timeout
EatenAt(i) ==
  LET g == coLog[i].ghost
  IN  /\ i < Len(coLog)
      /\ coLog[i + 1].ev = "GhostEaten"
      /\ coLog[i + 1].ghost = g
      /\ \A k \in 1..Len(coGhosts) : coGhosts[k] # g
      /\ \E r \in coRespawns :
           /\ r.ghost # g
           /\ r.ghost.id = g.id /\ r.ghost.gen = g.gen + 1
           /\ r.ghost.x = g.x /\ r.ghost.y = g.y /\ r.ghost.behavior = g.behavior

\* a replacement is in the collection only through its timeout, which runs
\* when 5000 ms have passed since the ghost was eaten, not before and not later
RespawnTiming ==
  /\ \A r \in coRespawns :
       /\ r.added => r.waited = RespawnDelay
       /\ ~r.added => (r.waited <= RespawnDelay /\ \A k \in 1..Len(coGhosts) : coGhosts[k] # r.ghost)
  /\ \A k \in 1..Len(coGhosts) :
       coGhosts[k].gen > 0 => \E r \in coRespawns : r.ghost = coGhosts[k] /\ r.added

\* the pass left the player's lives and position as the wall phase left them
PlayerUntouched ==
  /\ coLife.lives = coPre.life.lives
  /\ coPac = AfterWalls

LogOf(kind) == {i \in 1..Len(coLog) : coLog[i].ev = kind}

\* C21: in a pass with ghosts not scared every overlap told of costs exactly
\* one life and publishes one PacmanDied, whose gameOver flag says that the
\* lives are exhausted; the player is at the centre of the start tile after a
\* death that left lives and where it was after one that did not.
C21_UnscaredOverlapCostsLife ==
  (coPasses > 0 /\ ~coPre.scared) =>
    /\ coPre.life.lives - coLife.lives = Cardinality(LogOf("GhostCollided"))
    /\ Cardinality(LogOf("PacmanDied")) = Cardinality(LogOf("GhostCollided"))
    /\ \A i \in LogOf("PacmanDied") :
         /\ coLog[i].flag =
              (coPre.life.lives - Cardinality({j \in LogOf("PacmanDied") : j <= i}) < 0)
         /\ (\A j \in LogOf("PacmanDied") : j <= i) =>
              coPac = IF coLog[i].flag THEN coLog[i].pac ELSE startCentre

(* ------------------------------ Game: the systems wired together ------- *)
\* frames and loadLevel calls are counted up to these bounds
MaxFrames == 2
MaxLoads == 3

\* the durations CollisionSystem publishes with PelletCollected
PowerDuration == 10000
PathDuration == 15000

\* the fields of GameState, ScoreSystem and UIManager the listeners work on,
\* with what they published (pub) and the statuses handed to the callback (cb)
GameOf ==
  [status |-> status, ghostsScared |-> ghostsScared, showPath |-> showPath, tm |-> TM,
   score2 |-> score2, consecutiveGhosts |-> consecutiveGhosts, points2 |-> 0,
   screen |-> esScreen, pub |-> <<>>, cb |-> <<>>, seen |-> <<>>,
   sinceArm |-> sinceArm, lastDur |-> lastDur, live |-> live, expiries |-> expiries]

\* ScoreSystem.addScore
addScoreOf(g, points2) ==
  [g EXCEPT !.score2 = @ + points2, !.points2 = points2, !.pub = Append(@, "ScoreChanged")]

\* ScoreSystem.addGhostScore
addGhostScoreOf(g) ==
  [addScoreOf(g, GhostPoints2(g.consecutiveGhosts)) EXCEPT !.consecutiveGhosts = @ + 1]

\* TimerManager.setTimer on the record, with the history of the timer
armOf(g, id, d) ==
  [g EXCEPT !.tm = setTimer(@, id, d),
            !.sinceArm[id] = 0, !.lastDur[id] = d, !.live[id] = TRUE, !.expiries[id] = 0]

\* GameState.setGhostsScared
setGhostsScaredOf(g, d) ==
  armOf([g EXCEPT !.ghostsScared = TRUE,
                  !.consecutiveGhosts = resetConsecutiveGhosts(@)], SCARED_TIMER, d)

\* GameState.setShowPath
setShowPathOf(g, d) == armOf([g EXCEPT !.showPath = TRUE], PATH_TIMER, d)

\* Game.handlePotentialHighScore: the name screen for a high score, the high
\* score screen otherwise; the callback publishes the screen's event, whose
\* listener sets the status it already has
handlePotentialHighScore(g, isHighScore) ==
  IF isHighScore
    THEN [g EXCEPT !.status = "NameInput", !.cb = Append(@, "NameInput"),
                   !.pub = Append(@, "ShowNameInput"), !.screen = "name"]
    ELSE [g EXCEPT !.status = "HighScores", !.cb = Append(@, "HighScores"),
                   !.pub = Append(@, "ShowHighScores"), !.screen = "scores"]

\* TimerManager.clearAllTimers on the record
clearAllOf(g) ==
  [g EXCEPT !.tm = clearAllTimers(@),
            !.sinceArm = [i \in TimerIds |-> 0], !.lastDur = [i \in TimerIds |-> 0],
            !.live = [i \in TimerIds |-> FALSE], !.expiries = [i \in TimerIds |-> 0]]

\* GameState.endGame with EventSystem.handleGameStatusChange as the callback:
\* GameOver is published and Game's listener opens a screen
endGameOf(g, isHighScore) ==
  clearAllOf(IF g.status # "GameOver"
               THEN handlePotentialHighScore(
                      [g EXCEPT !.status = "GameOver", !.cb = Append(@, "GameOver"),
                                !.pub = Append(@, "GameOver")], isHighScore)
               ELSE g)

\* GameState.winGame the same way: LevelCompleted is published, ScoreSystem's
\* listener adds the completion bonus, Game's listener opens a screen
winGameOf(g, isHighScore) ==
  clearAllOf(IF g.status # "Victory"
               THEN handlePotentialHighScore(
                      addScoreOf([g EXCEPT !.status = "Victory", !.cb = Append(@, "Victory"),
                                           !.pub = Append(@, "LevelCompleted")],
                                 LevelCompletionValue2), isHighScore)
               ELSE g)

\* the data notifyDotCollected publishes: an object without points
DotData == [hasPoints |-> FALSE, points2 |-> 0]

\* an EventSystem dot listener that adds the dot value whatever the data hold
dotListenerAdds(g, data) == addScoreOf(g, DotValue2)

\* EventSystem's DotCollected listener: adds the points of the data, if any
dotListener(g, data) == IF data.hasPoints THEN addScoreOf(g, data.points2) ELSE g

\* an EventSystem pellet listener that arms both effects with one duration
pelletListenerBoth(g, isPowerPellet, duration) ==
  setShowPathOf(setGhostsScaredOf(g, duration), duration)

\* EventSystem's PelletCollected listener
pelletListener(g, isPowerPellet, duration) ==
  IF isPowerPellet THEN setGhostsScaredOf(g, duration) ELSE setShowPathOf(g, duration)

\* the time left on the tracked timer of an effect, -1 when none is tracked
timerLeft(tm, id) == IF tm.timers[id] = 0 THEN -1 ELSE tm.timeouts[tm.timers[id]].left

\* what GameState and ScoreSystem hold at one moment of a frame
Snap(g) ==
  [ghostsScared |-> g.ghostsScared, showPath |-> g.showPath,
   scaredLeft |-> timerLeft(g.tm, SCARED_TIMER), pathLeft |-> timerLeft(g.tm, PATH_TIMER),
   consecutiveGhosts |-> g.consecutiveGhosts, score2 |-> g.score2, status |-> g.status,
   scoreChanged |-> Cardinality({j \in 1..Len(g.pub) : g.pub[j] = "ScoreChanged"})]

\* the listeners of one published event, in the order they registered:
\* ScoreSystem's, then EventSystem's
listenersOf(g, e, isHighScore) ==
  CASE e.ev = "DotCollected" -> dotListener(addScoreOf(g, DotValue2), DotData)
    [] e.ev = "PelletCollected" /\ e.flag ->
         pelletListener([addScoreOf(g, PowerPelletValue2) EXCEPT
                           !.consecutiveGhosts = resetConsecutiveGhosts(@)],
                        TRUE, PowerDuration)
    [] e.ev = "PelletCollected" /\ ~e.flag ->
         pelletListener(addScoreOf(g, PathPelletValue2), FALSE, PathDuration)
    [] e.ev = "GhostEaten" -> addGhostScoreOf(g)
    [] e.ev = "PacmanDied" -> IF e.flag THEN endGameOf(g, isHighScore) ELSE g
    [] OTHER -> g

\* one entry of the pass log is published; what the game holds once its
\* listeners have returned is noted
listen(g, e, isHighScore) ==
  LET h == listenersOf(g, e, isHighScore) IN [h EXCEPT !.seen = Append(@, Snap(h))]

\* every entry of a pass log through its listeners, in the order published
RECURSIVE wire(_, _, _, _)
wire(g, log, i, isHighScore) ==
  IF i > Len(log) THEN g ELSE wire(listen(g, log[i], isHighScore), log, i + 1, isHighScore)

\* EntitySystem.checkWinCondition
checkWinCondition(g, dots, isHighScore) ==
  IF Len(dots) = 0 /\ g.score2 > 0 THEN winGameOf(g, isHighScore) ELSE g

\* the level of the default level file: two dots, a power and a path pellet on
\* neighbouring tiles, two ghosts on their home tile
PathPelletSpot == [x |-> 100, y |-> 60]
GhostHome == [x |-> 20, y |-> 20]
FarDot == [x |-> 140, y |-> 60]
LevelDots == <<DotSpot, FarDot>>
LevelPellets == << [x |-> PelletSpot.x, y |-> PelletSpot.y, kind |-> "power"],
                   [x |-> PathPelletSpot.x, y |-> PathPelletSpot.y, kind |-> "path"] >>
LevelGhosts == << [id |-> 1, gen |-> 0, x |-> GhostHome.x, y |-> GhostHome.y,
                   behavior |-> "chaser"],
                 [id |-> 2, gen |-> 0, x |-> GhostHome.x, y |-> GhostHome.y,
                   behavior |-> "chaser"] >>

\* where pacman.update can have brought the player: on the dot, at the corner
\* of the wall by the power pellet, between the two pellets, next to the path
\* pellet, on the far dot
PlayerSpots == {DotSpot, [x |-> 66, y |-> 38], [x |-> 80, y |-> 60], [x |-> 90, y |-> 60], FarDot}

\* where ghost.update can have brought the ghost: by the power pellet
GhostLane == {[x |-> 60, y |-> 50]}

\* ghost.update: ghost k (0: none) has moved to a spot of its lane
moveGhost(ghosts, k, spot) ==
  [i \in 1..Len(ghosts) |-> IF i = k THEN [ghosts[i] EXCEPT !.x = spot.x, !.y = spot.y]
                            ELSE ghosts[i]]

\* the fields of a record of GameOf become the state
InstallGame(g) ==
  /\ status' = g.status
  /\ ghostsScared' = g.ghostsScared
  /\ showPath' = g.showPath
  /\ InstallTM(g.tm)
  /\ score2' = g.score2
  /\ consecutiveGhosts' = g.consecutiveGhosts
  /\ lastPoints2' = g.points2
  /\ published' = g.pub
  /\ cbCalls' = g.cb
  /\ esScreen' = g.screen
  /\ sinceArm' = g.sinceArm
  /\ lastDur' = g.lastDur
  /\ live' = g.live
  /\ expiries' = g.expiries
  /\ ret' = FALSE
  /\ oldArmed' = ArmedIds(timeouts)
  /\ oldStreak' = consecutiveGhosts
  /\ UNCHANGED <<callbackSet, scHist, busVars, pfVars, lvVars, rpVars, wlVars, ghVars>>


\* EntitySystem.update, one frame of Game.gameLoop: nothing unless playing;
\* the player and the ghosts move, areGhostsScared() is read once, the
\* collision pass runs with that value while the listeners of what it
\* publishes run inside it, then the win condition is looked at. A pass that
\* throws ends the frame and the loop with it.
EsUpdate(to, k, spot, throwAt, isHighScore) ==
  /\ status = "Playing"
  /\ esLevel # 0
  /\ coPre.error = "none"
  /\ coPasses < MaxFrames
  /\ \E sc \in {[pac |-> to, dots |-> coDots, pellets |-> coPellets,
                 ghosts |-> moveGhost(coGhosts, k, spot), life |-> coLife,
                 respawns |-> coRespawns, log |-> <<>>, dies |-> 0, error |-> "none"]} :
       \E r \in {update(sc, ghostsScared, throwAt)} :
         \E g \in {IF r.error = "none"
                     THEN checkWinCondition(wire(GameOf, r.log, 1, isHighScore), r.dots,
                                            isHighScore)
                     ELSE wire(GameOf, r.log, 1, isHighScore)} :
           /\ g.score2 <= ScMaxScore2
           /\ coPac' = r.pac
           /\ coDots' = r.dots
           /\ coPellets' = r.pellets
           /\ coGhosts' = r.ghosts
           /\ coLife' = r.life
           /\ coRespawns' = r.respawns
           /\ coLog' = r.log
           /\ coPre' = [scared |-> ghostsScared, pac |-> to, life |-> coLife, dots |-> coDots,
                        pellets |-> coPellets, ghosts |-> sc.ghosts, error |-> r.error]
           /\ esSeen' = g.seen
           /\ InstallGame(g)
  /\ esPre' = Snap(GameOf)
  /\ esFrames' = esFrames + 1
  /\ coPasses' = coPasses + 1
  /\ lastOp' = "frame"
  /\ UNCHANGED <<level, esLevel, esLoads, esStarted>>

\* Game.loadLevel up to its await: resetGameState (GameState.reset,
\* EntitySystem.reset, pacman.cleanup), then the level file is asked for
LoadBegun(calls) ==
  /\ status' = "Loading"
  /\ level' = 1
  /\ ghostsScared' = FALSE
  /\ showPath' = FALSE
  /\ InstallTM(clearAllTimers(TM))
  /\ score2' = 0
  /\ consecutiveGhosts' = 0
  /\ lastPoints2' = 0
  /\ cbCalls' = <<>>
  /\ published' = <<>>
  /\ ret' = FALSE
  /\ HistCleared
  /\ oldArmed' = ArmedIds(timeouts)
  /\ oldStreak' = consecutiveGhosts
  /\ esFrames' = 0
  /\ coLife' = [coLife EXCEPT !.left = -1]
  /\ esLoads' = esLoads \cup ((esStarted + 1)..(esStarted + calls))
  /\ esStarted' = esStarted + calls
  /\ coLog' = <<>>
  /\ coPre' = [NoPre EXCEPT !.error = coPre.error]
  /\ esSeen' = <<>>
  /\ esPre' = NoEsPre
  /\ UNCHANGED <<callbackSet, scHist, busVars, pfVars, lvVars, rpVars, wlVars, ghVars, esLevel,
                 coPac, coDots, coPellets, coGhosts, coRespawns, coPasses>>

\* a call of Game.loadLevel or Game.restartGame
LoadLevel ==
  /\ esStarted + 1 <= MaxLoads
  /\ LoadBegun(1)
  /\ lastOp' = "loadLevel"
  /\ UNCHANGED esScreen

\* the high score screen is closed: UIManager runs the saved onHighScoresClosed
\* and then onClose, the same function, and each calls Game.restartGame
HighScoresClosed ==
  /\ esScreen = "scores"
  /\ esStarted + 2 <= MaxLoads
  /\ LoadBegun(2)
  /\ esScreen' = "none"
  /\ lastOp' = "highScoresClosed"

\* the name is confirmed: UIManager runs onNameConfirmed and onConfirm, and each
\* adds the score, publishes HighScoreAdded and shows the high scores
NameConfirmed ==
  /\ esScreen = "name"
  /\ status' = "HighScores"
  /\ cbCalls' = IF status # "HighScores" THEN <<"HighScores">> ELSE <<>>
  /\ published' = IF status # "HighScores"
                    THEN <<"HighScoreAdded", "ShowHighScores", "HighScoreAdded">>
                    ELSE <<"HighScoreAdded", "HighScoreAdded">>
  /\ esScreen' = "scores"
  /\ ret' = FALSE
  /\ lastOp' = "nameConfirmed"
  /\ oldArmed' = ArmedIds(timeouts)
  /\ oldStreak' = consecutiveGhosts
  /\ HistSame
  /\ ScSame
  /\ UNCHANGED <<level, ghostsScared, showPath, callbackSet, timers, timeouts,
                 scHist, busVars, pfVars, lvVars, rpVars, wlVars, ghVars, coVars,
                 esLevel, esLoads, esStarted, esFrames, esSeen, esPre>>

\* loadLevel call l goes on after its await: buildLevel puts the player on the
\* start tile, EntitySystem.setLevel installs the level, GameState.startGame
LoadComplete(l) ==
  /\ l \in esLoads
  /\ esLoads' = esLoads \ {l}
  /\ esLevel' = l
  /\ coPac' = startCentre
  /\ coDots' = LevelDots
  /\ coPellets' = LevelPellets
  /\ coGhosts' = LevelGhosts
  /\ coRespawns' = {}
  /\ status' = "Playing"
  /\ cbCalls' = IF status # "Playing" THEN <<"Playing">> ELSE <<>>
  /\ published' = IF status # "Playing" THEN <<"GameResumed", "LevelLoaded">>
                  ELSE <<"LevelLoaded">>
  /\ ret' = FALSE
  /\ lastOp' = "levelLoaded"
  /\ oldArmed' = ArmedIds(timeouts)
  /\ oldStreak' = consecutiveGhosts
  /\ HistSame
  /\ ScSame
  /\ coLog' = <<>>
  /\ coPre' = [NoPre EXCEPT !.error = coPre.error]
  /\ esSeen' = <<>>
  /\ esPre' = NoEsPre
  /\ UNCHANGED <<level, ghostsScared, showPath, callbackSet, timers, timeouts,
                 scHist, busVars, pfVars, lvVars, rpVars, wlVars, ghVars, coLife,
                 coPasses,
                 esStarted, esScreen, esFrames>>

\* loadLevel call l is rejected at its await: the level file could not be had
LoadFails(l) ==
  /\ l \in esLoads
  /\ esLoads' = esLoads \ {l}
  /\ lastOp' = "loadFailed"
  /\ UNCHANGED <<status, level, ghostsScared, showPath, callbackSet, timers, timeouts,
                 ret, cbCalls, published, oldArmed, oldStreak, sinceArm, lastDur, live,
                 expiries, scVars, scHist, busVars, pfVars, lvVars, rpVars, wlVars, ghVars,
                 coVars,
                 esLevel, esStarted, esScreen, esFrames, esSeen, esPre>>

\* the Game as its constructor leaves it: EventSystem has set the callback
InitGame ==
  /\ GsInit
  /\ callbackSet = TRUE
  /\ BusInit
  /\ PfInit
  /\ RestIdle

\* the ghost that leaves the home tile in a frame, if any, is the first of the level
NextGame ==
  \/ \E to \in PlayerSpots \cup {coPac},
        k \in {0} \cup {i \in 1..Len(coGhosts) : coGhosts[i].id = 1}, throwAt \in 0..1,
        isHighScore \in BOOLEAN :
         \E spot \in IF k = 0 THEN {GhostHome} ELSE GhostLane :
           EsUpdate(to, k, spot, throwAt, isHighScore)
  \/ LoadLevel
  \/ HighScoresClosed
  \/ NameConfirmed
  \/ \E l \in esLoads : LoadComplete(l)
  \/ \E l \in esLoads : LoadFails(l)

SpecGame == InitGame /\ [][NextGame]_vars

\* what the game held when entry i of the pass log was published
Before(i) == IF i = 1 THEN esPre ELSE esSeen[i - 1]

C29_DotScoresOnce ==
  \A i \in 1..Len(esSeen) :
    coLog[i].ev = "DotCollected" =>
      /\ esSeen[i].score2 = Before(i).score2 + DotValue2
      /\ esSeen[i].scoreChanged = Before(i).scoreChanged + 1

\* a frame collected a dot
C29_Witness ==
  /\ lastOp = "frame"
  /\ \E i \in 1..Len(esSeen) : coLog[i].ev = "DotCollected"
  /\ score2 = esPre.score2 + DotValue2

\* the pellets of the last pass the player touched once the walls were resolved
Touched ==
  {j \in 1..Len(coPre.pellets) :
     circlesIntersect(AfterWalls, pacmanRadius, coPre.pellets[j], pelletRadius)}

\* C30: once the listeners of a power pellet's PelletCollected have run, ghosts
\* are scared with a 10000 ms timer and the streak is 0, the path effect as it
\* was; once those of a path pellet's have run, the path is shown with a
\* 15000 ms timer and the scared flag, its timer and the streak are as they
\* were; a touched pellet is gone from the level after the pass
C30_PelletEffects ==
  /\ \A i \in 1..Len(esSeen) :
       coLog[i].ev = "PelletCollected" =>
         IF coLog[i].flag
           THEN /\ esSeen[i].ghostsScared
                /\ esSeen[i].scaredLeft = PowerDuration
                /\ esSeen[i].consecutiveGhosts = 0
                /\ esSeen[i].showPath = Before(i).showPath
                /\ esSeen[i].pathLeft = Before(i).pathLeft
           ELSE /\ esSeen[i].showPath
                /\ esSeen[i].pathLeft = PathDuration
                /\ esSeen[i].ghostsScared = Before(i).ghostsScared
                /\ esSeen[i].scaredLeft = Before(i).scaredLeft
                /\ esSeen[i].consecutiveGhosts = Before(i).consecutiveGhosts
  /\ lastOp = "frame" =>
       /\ \A j \in Touched : \A m \in 1..Len(coPellets) : coPellets[m] # coPre.pellets[j]
       /\ Cardinality(LogOf("PelletCollected")) = Cardinality(Touched)

\* a frame collected the power pellet and the path pellet
C30_Witness ==
  /\ lastOp = "frame"
  /\ \E i, j \in LogOf("PelletCollected") : coLog[i].flag /\ ~coLog[j].flag
  /\ ghostsScared /\ showPath
  /\ coPellets = <<>>

\* C26: when a loadLevel call has completed the game is fresh: status Playing,
\* level 1, score and streak 0, no effect active, and the entities are those
\* of the level that call built
C26_LoadCompleteFresh ==
  lastOp = "levelLoaded" =>
    /\ status = "Playing"
    /\ level = 1
    /\ score2 = 0
    /\ consecutiveGhosts = 0
    /\ ~ghostsScared
    /\ ~showPath
    /\ coDots = LevelDots /\ coPellets = LevelPellets /\ coGhosts = LevelGhosts

\* C27: while a loadLevel call waits for its level the status is Loading, so
\* that EntitySystem.update, which returns unless the game is playing, makes
\* no simulation step
C27_LoadingWhileInFlight == esLoads # {} => status = "Loading"

\* C28: after a pass the dots left are those of before that the player did not
\* touch, in their order, and one DotCollected was published for each dot gone;
\* the same for the pellets, against the player as the walls left it
C28_CollectedExactly ==
  lastOp = "frame" =>
    /\ coDots = SelectSeq(coPre.dots,
                          LAMBDA q : ~circlesIntersect(coPre.pac, pacmanRadius, q, dotRadius))
    /\ Cardinality(LogOf("DotCollected")) = Len(coPre.dots) - Len(coDots)
    /\ coPellets = SelectSeq(coPre.pellets,
                             LAMBDA q : ~circlesIntersect(AfterWalls, pacmanRadius, q, pelletRadius))
    /\ Cardinality(LogOf("PelletCollected")) = Len(coPre.pellets) - Len(coPellets)

\* a pass removed two neighbouring pellets of the array and left the dots
C28_Witness ==
  /\ lastOp = "frame"
  /\ Len(coPre.pellets) = 2
  /\ Cardinality(LogOf("PelletCollected")) = 2
  /\ coDots = coPre.dots
  /\ coDots # <<>>

(* ------------------------------ Wall.handleCollision ------------------- *)
\* walls up to this size, entities up to this radius, on a board this wide
MaxSize == 3
MaxRadius == 2
MaxCoord == 12

WallCorners == {4, 5}

\* a wall and an entity somewhere about it
InitWall ==
  /\ GsInit
  /\ callbackSet = FALSE
  /\ BusInit
  /\ PfInit
  /\ LvIdle
  /\ RpIdle
  /\ CoIdle
  /\ EsIdle
  /\ GhIdle
  /\ \E x \in WallCorners, y \in WallCorners, w \in 1..MaxSize, h \in 1..MaxSize :
       wlWall = [x |-> x, y |-> y, width |-> w, height |-> h]
  /\ wlRadius \in 1..MaxRadius
  /\ \E x \in 0..MaxCoord, y \in 0..MaxCoord : wlPos = [x |-> x, y |-> y]
  /\ wlFrom = wlPos
  /\ wlCalls = 0

\* wall.handleCollision(entity), and once more right after
WlHandleCollision ==
  /\ wlCalls < 2
  /\ wlFrom' = wlPos
  /\ wlPos' = handleCollision(wlWall, wlPos, wlRadius)
  /\ wlCalls' = wlCalls + 1
  /\ lastOp' = "handleCollision"
  /\ UNCHANGED <<wlWall, wlRadius, status, level, ghostsScared, showPath, callbackSet, timers,
                 timeouts, ret, cbCalls, published, oldArmed, oldStreak, sinceArm, lastDur,
                 live, expiries, scVars, scHist, busVars, pfVars, lvVars, rpVars, coVars, esVars,
                 ghVars>>

NextWall == WlHandleCollision

SpecWall == InitWall /\ [][NextWall]_vars

\* the bounding square of the entity at p and the wall touch or overlap
Contact(p) ==
  /\ p.x - wlRadius <= wlWall.x + wlWall.width
  /\ wlWall.x <= p.x + wlRadius
  /\ p.y - wlRadius <= wlWall.y + wlWall.height
  /\ wlWall.y <= p.y + wlRadius

\* the bounding square at p is clear of the wall along x, along y
ClearX(p) == p.x + wlRadius < wlWall.x \/ wlWall.x + wlWall.width < p.x - wlRadius
ClearY(p) == p.y + wlRadius < wlWall.y \/ wlWall.y + wlWall.height < p.y - wlRadius

\* C23: a handleCollision call that finds the entity's bounding square touching
\* or overlapping the wall moves it along one axis only, and clear of the wall
\* on that axis; a call that finds no contact leaves the position as it is
C23_OneAxisClear ==
  wlCalls > 0 =>
    IF Contact(wlFrom)
      THEN \/ wlPos.x # wlFrom.x /\ wlPos.y = wlFrom.y /\ ClearX(wlPos)
           \/ wlPos.y # wlFrom.y /\ wlPos.x = wlFrom.x /\ ClearY(wlPos)
      ELSE wlPos = wlFrom

\* a call found the entity just touching the wall's corner and moved it
C23_Witness ==
  /\ wlCalls = 1
  /\ wlFrom.x + wlRadius = wlWall.x
  /\ wlFrom.y + wlRadius = wlWall.y
  /\ wlPos # wlFrom

\* C24: a second handleCollision right after the first changes nothing
C24_SecondCallIdle == wlCalls = 2 => wlPos = wlFrom

\* the second call came after a first that had moved the entity
C24_Witness ==
  /\ wlCalls = 2
  /\ Contact(wlPos) = FALSE
  /\ \E x \in 0..MaxCoord, y \in 0..MaxCoord :
       /\ Contact([x |-> x, y |-> y])
       /\ handleCollision(wlWall, [x |-> x, y |-> y], wlRadius) = wlPos

(* ------------------------------ ChaserBehavior -------------------------- *)
\* chase radii up to this are tried; GhostFactory.createRandom uses 0
MaxChase == 1

\* Utils.distanceBetween: the Manhattan distance
distanceBetween(a, b) == Abs(a[1] - b[1]) + Abs(a[2] - b[2])

\* ChaserBehavior.determineDestination; random is the node getRandomPoint
\* gives if it is called
determineDestination(chaseRadius, currentPoint, pacmanPoint, isScared, random) ==
  IF isScared THEN [dest |-> random, called |-> TRUE]
  ELSE IF distanceBetween(currentPoint, pacmanPoint) <= chaseRadius
    THEN [dest |-> pacmanPoint, called |-> FALSE]
    ELSE [dest |-> random, called |-> TRUE]

\* a ghost on a node, the player on a node, scared or not
InitGhost ==
  /\ GsInit
  /\ callbackSet = FALSE
  /\ BusInit
  /\ PfInit
  /\ LvIdle
  /\ RpIdle
  /\ CoIdle
  /\ EsIdle
  /\ WlIdle
  /\ pcComp = NoComp
  /\ ptrl = NoPatrol
  /\ \E c \in Cells, q \in Cells, b \in BOOLEAN, r \in 0..MaxChase :
       ghCall = [current |-> c, pacman |-> q, isScared |-> b, chaseRadius |-> r,
                 supplied |-> NoNode, called |-> FALSE, dest |-> NoNode, done |-> FALSE]

\* behavior.determineDestination(currentPoint, pacmanPoint, isScared, getRandomPoint)
GhDetermine(random) ==
  /\ ~ghCall.done
  /\ \E r \in {determineDestination(ghCall.chaseRadius, ghCall.current, ghCall.pacman,
                                    ghCall.isScared, random)} :
       ghCall' = [ghCall EXCEPT !.dest = r.dest, !.called = r.called, !.done = TRUE,
                                !.supplied = IF r.called THEN random ELSE NoNode]
  /\ lastOp' = "determineDestination"
  /\ UNCHANGED <<status, level, ghostsScared, showPath, callbackSet, timers, timeouts, ret,
                 cbCalls, published, oldArmed, oldStreak, sinceArm, lastDur, live, expiries,
                 scVars, scHist, busVars, pfVars, lvVars, rpVars, coVars, esVars, wlVars,
                 pcComp, ptrl>>

NextGhost == \E random \in Cells : GhDetermine(random)

SpecGhost == InitGhost /\ [][NextGhost]_vars

\* C25: a ghost with chase radius 0 takes every destination from the
\* random-point supplier, wherever it and the player are, scared or not
C25_RandomFromSupplier ==
  (ghCall.done /\ ghCall.chaseRadius = 0) => ghCall.called /\ ghCall.dest = ghCall.supplied

(* --------------------------- PathfindingComponent ---------------------- *)
\* update frequencies up to this are tried (Ghost builds its component with 30)
MaxFreq == 3
\* updates of one component
MaxTicks == 3

\* MovementComponent.update, seen on the graph: with the speed moveInDirection
\* last set the ghost is still on its node or on the next one that way
step(n, dir) ==
  CASE dir = "RIGHT" -> <<n[1] + 1, n[2]>>
    [] dir = "LEFT" -> <<n[1] - 1, n[2]>>
    [] dir = "UP" -> <<n[1], n[2] - 1>>
    [] dir = "DOWN" -> <<n[1], n[2] + 1>>
    [] OTHER -> n

\* the direction the axis comparison gives ("NONE": the nodes do not differ)
axisDirection(currentTarget, currentPoint) ==
  IF currentTarget[1] > currentPoint[1] THEN "RIGHT"
  ELSE IF currentTarget[1] < currentPoint[1] THEN "LEFT"
  ELSE IF currentTarget[2] < currentPoint[2] THEN "UP"
  ELSE IF currentTarget[2] > currentPoint[2] THEN "DOWN"
  ELSE "NONE"

\* PathfindingComponent.determineMovementDirection: the direction handed to
\* moveInDirection ("NONE": no call)
determineMovementDirection(c) ==
  IF c.currentTarget = NoNode \/ c.currentPoint = NoNode \/ c.currentTarget = c.currentPoint
    THEN "NONE"
    ELSE axisDirection(c.currentTarget, c.currentPoint)

\* the held speed after moveInDirection(d), if it was called
held(c, d) == [c EXCEPT !.moved = d, !.dir = IF d = "NONE" THEN c.dir ELSE d]

\* PathfindingComponent.moveToNextNode; random is what getRandomPoint gives
moveToNextNode(c, random) ==
  IF c.currentPoint = NoNode THEN c
  ELSE LET t == IF Len(c.path) >= 2
                  THEN [c EXCEPT !.currentTarget = c.path[2]]
                  ELSE [c EXCEPT !.currentTarget = IF Len(c.path) = 1 THEN c.path[1]
                                                   ELSE c.currentPoint,
                                 !.destination = random]
       IN  held(t, determineMovementDirection(t))

\* PathfindingComponent.updatePathfinding with a ChaserBehavior; the result is
\* the component and the prev fields the search leaves
updatePathfinding(c, prv, pacmanPoint, isScared, random, random2) ==
  IF c.currentPoint = NoNode THEN [comp |-> c, prev |-> prv]
  ELSE LET dest == determineDestination(c.chaseRadius, c.currentPoint, pacmanPoint,
                                        isScared, random).dest
           r == constructPathBFS(c.currentPoint, dest, prv)
       IN  [comp |-> moveToNextNode([c EXCEPT !.destination = dest, !.path = r.path,
                                              !.searched = TRUE], random2),
            prev |-> r.prev]

\* PathfindingComponent.update; at is getPoint(position.x, position.y)
pcUpdate(c, prv, at, pacmanPoint, isScared, random, random2) ==
  LET u == [c EXCEPT !.currentPoint = at, !.pos = at, !.lastUpdate = c.lastUpdate + 1,
                     !.ticks = c.ticks + 1, !.searched = FALSE, !.moved = "NONE"]
  IN  IF u.lastUpdate >= u.updateFrequency
        THEN updatePathfinding([u EXCEPT !.lastUpdate = 0], prv, pacmanPoint, isScared,
                               random, random2)
        ELSE [comp |-> u, prev |-> prv]

\* PathfindingComponent.setUpdateFrequency
setUpdateFrequency(c, frequency) ==
  [c EXCEPT !.updateFrequency = IF frequency < 1 THEN 1 ELSE frequency]

PcSame ==
  UNCHANGED <<passable, pfFrom, pfTo, pfPath, pfIter, pfDone, pfWritten, pfStale, status,
              level, ghostsScared, showPath, callbackSet, timers, timeouts, ret, cbCalls,
              published, oldArmed, oldStreak, sinceArm, lastDur, live, expiries, scVars,
              scHist, busVars, lvVars, rpVars, coVars, esVars, wlVars, ghCall, ptrl>>

\* one Ghost.update: the ghost has gone on with its speed, then its component
\* is updated
PcUpdate(at, pacmanPoint, isScared, random, random2) ==
  /\ pcComp.ticks < MaxTicks
  /\ at \in {pcComp.pos, step(pcComp.pos, pcComp.dir)} \cap Cells
  /\ \E r \in {pcUpdate(pcComp, prev, at, pacmanPoint, isScared, random, random2)} :
       /\ pcComp' = r.comp
       /\ prev' = r.prev
  /\ lastOp' = "update"
  /\ PcSame

\* Ghost.setUpdateFrequency
PcSetUpdateFrequency(frequency) ==
  /\ pcComp.ticks < MaxTicks
  /\ setUpdateFrequency(pcComp, frequency) # pcComp
  /\ pcComp' = setUpdateFrequency(pcComp, frequency)
  /\ lastOp' = "setUpdateFrequency"
  /\ UNCHANGED prev
  /\ PcSame

\* a ghost on a node of an open level, its component as the constructor
\* leaves it with the update frequency it was given
InitPlan ==
  /\ GsInit
  /\ callbackSet = FALSE
  /\ BusInit
  /\ PfInit
  /\ LvIdle
  /\ RpIdle
  /\ CoIdle
  /\ EsIdle
  /\ WlIdle
  /\ ghCall = [current |-> NoNode, pacman |-> NoNode, isScared |-> FALSE, chaseRadius |-> 0,
               supplied |-> NoNode, called |-> FALSE, dest |-> NoNode, done |-> FALSE]
  /\ ptrl = NoPatrol
  /\ \E n \in Cells, f \in 0..MaxFreq :
       pcComp = [NoComp EXCEPT !.pos = n, !.updateFrequency = f,
                               !.chaseRadius = GridW + GridH]

\* the nodes getRandomPoint is taken to give: two opposite corners of the level
RandomDraws == {<<0, 0>>, <<GridW - 1, GridH - 1>>}

NextPlan ==
  \/ \E at \in Cells, pacmanPoint \in Cells, isScared \in BOOLEAN, random \in RandomDraws,
        random2 \in RandomDraws : PcUpdate(at, pacmanPoint, isScared, random, random2)
  \/ \E frequency \in 0..MaxFreq : PcSetUpdateFrequency(frequency)

SpecPlan == InitPlan /\ [][NextPlan]_vars

\* C31: after every update made with a path of two nodes or more, the target is
\* the second node of that path and the ghost is heading the way the axis
\* comparison of target and current node gives (horizontal first)
C31_TargetEveryTick ==
  (lastOp = "update" /\ Len(pcComp.path) >= 2) =>
    /\ pcComp.currentTarget = pcComp.path[2]
    /\ axisDirection(pcComp.currentTarget, pcComp.currentPoint) \in {"NONE", pcComp.dir}

(* ------------------------------ PatrolBehavior -------------------------- *)
\* waypoint lists up to this length
MaxPoints == 3
\* the nodes waypoints are taken from: three corners of the level
PatrolSpots == {<<0, 0>>, <<GridW - 1, 0>>, <<GridW - 1, GridH - 1>>}
\* the nodes the ghost is asked from: the four corners
PatrolGhostSpots == PatrolSpots \cup {<<0, GridH - 1>>}

\* array[i] of the code: undefined (NoNode) outside the array
elementAt(q, i) == IF i + 1 \in 1..Len(q) THEN q[i + 1] ELSE NoNode

\* PatrolBehavior.setPatrolPoints
setPatrolPoints(b, points) == [b EXCEPT !.patrolPoints = points, !.currentPatrolIndex = 0]

\* PatrolBehavior.addPatrolPoint
addPatrolPoint(b, point) == [b EXCEPT !.patrolPoints = Append(b.patrolPoints, point)]

\* the patrol branch that hands out the waypoint it has just reached
followPatrolStays(b, currentPoint) ==
  LET target == elementAt(b.patrolPoints, b.currentPatrolIndex)
  IN  IF currentPoint = target
        THEN [b EXCEPT !.currentPatrolIndex = (b.currentPatrolIndex + 1) % Len(b.patrolPoints),
                       !.dest = target]
        ELSE [b EXCEPT !.dest = target]

\* the patrol branch of determineDestination: the current waypoint, or the
\* next one once the current one is reached
followPatrol(b, currentPoint) ==
  LET target == elementAt(b.patrolPoints, b.currentPatrolIndex)
      next == (b.currentPatrolIndex + 1) % Len(b.patrolPoints)
  IN  IF currentPoint = target
        THEN [b EXCEPT !.currentPatrolIndex = next, !.dest = elementAt(b.patrolPoints, next)]
        ELSE [b EXCEPT !.dest = target]

\* PatrolBehavior.determineDestination; random is what getRandomPoint gives if
\* it is called
patrolDestination(b, currentPoint, pacmanPoint, isScared, random) ==
  IF Len(b.patrolPoints) = 0
    THEN IF isScared THEN [b EXCEPT !.dest = random]
         ELSE IF distanceBetween(currentPoint, pacmanPoint) <= b.chaseRadius
           THEN [b EXCEPT !.dest = pacmanPoint]
           ELSE [b EXCEPT !.dest = random]
  ELSE IF isScared THEN [b EXCEPT !.dest = random]
  ELSE IF distanceBetween(currentPoint, pacmanPoint) <= b.chaseRadius
    THEN [b EXCEPT !.dest = pacmanPoint]
    ELSE followPatrol(b, currentPoint)

\* what a call is remembered by: its name, the index it found and its arguments
called(b, op, currentPoint, pacmanPoint, isScared, random) ==
  [b EXCEPT !.op = op, !.before = ptrl.currentPatrolIndex,
            !.current = currentPoint, !.pacman = pacmanPoint, !.isScared = isScared,
            !.random = random]

PtSame ==
  UNCHANGED <<status, level, ghostsScared, showPath, callbackSet, timers, timeouts, ret,
              cbCalls, published, oldArmed, oldStreak, sinceArm, lastDur, live, expiries,
              scVars, scHist, busVars, pfVars, lvVars, rpVars, coVars, esVars, wlVars,
              ghCall, pcComp>>

PtDetermine(currentPoint, pacmanPoint, isScared, random) ==
  /\ ptrl' = called(patrolDestination(ptrl, currentPoint, pacmanPoint, isScared, random),
                    "determineDestination", currentPoint, pacmanPoint, isScared, random)
  /\ lastOp' = "determineDestination"
  /\ PtSame

PtSetPatrolPoints(points) ==
  /\ ptrl' = called([setPatrolPoints(ptrl, points) EXCEPT !.dest = NoNode],
                    "setPatrolPoints", NoNode, NoNode, FALSE, NoNode)
  /\ lastOp' = "setPatrolPoints"
  /\ PtSame

PtAddPatrolPoint(point) ==
  /\ Len(ptrl.patrolPoints) < MaxPoints
  /\ ptrl' = called([addPatrolPoint(ptrl, point) EXCEPT !.dest = NoNode],
                    "addPatrolPoint", NoNode, NoNode, FALSE, NoNode)
  /\ lastOp' = "addPatrolPoint"
  /\ PtSame

\* a PatrolBehavior as its constructor leaves it: up to two waypoints, a chase radius
InitPatrol ==
  /\ GsInit
  /\ callbackSet = FALSE
  /\ BusInit
  /\ PfInit
  /\ LvIdle
  /\ RpIdle
  /\ CoIdle
  /\ EsIdle
  /\ WlIdle
  /\ ghCall = [current |-> NoNode, pacman |-> NoNode, isScared |-> FALSE, chaseRadius |-> 0,
               supplied |-> NoNode, called |-> FALSE, dest |-> NoNode, done |-> FALSE]
  /\ pcComp = NoComp
  /\ \E points \in UNION {[1..n -> PatrolSpots] : n \in 0..2}, r \in 0..MaxChase :
       ptrl = [NoPatrol EXCEPT !.patrolPoints = points, !.chaseRadius = r]

NextPatrol ==
  \/ \E currentPoint \in PatrolGhostSpots, pacmanPoint \in RandomDraws, isScared \in BOOLEAN,
        random \in RandomDraws : PtDetermine(currentPoint, pacmanPoint, isScared, random)
  \/ \E points \in UNION {[1..n -> PatrolSpots] : n \in 0..2} : PtSetPatrolPoints(points)
  \/ \E point \in PatrolSpots : PtAddPatrolPoint(point)

SpecPatrol == InitPatrol /\ [][NextPatrol]_vars

\* the call was made unscared, out of the chase radius, with k >= 1 waypoints
Patrolling ==
  /\ ptrl.op = "determineDestination"
  /\ Len(ptrl.patrolPoints) >= 1
  /\ ~ptrl.isScared
  /\ distanceBetween(ptrl.current, ptrl.pacman) > ptrl.chaseRadius

\* C32: a patrolling call returns the waypoint at the index it found, unless the
\* ghost stands on it: then the index has gone one further (modulo k) and the
\* waypoint there is returned; with waypoints the index is always in 0..k-1;
\* without waypoints the call returns what a chaser of that radius returns
C32_PatrolCycle ==
  LET k == Len(ptrl.patrolPoints)
      was == ptrl.patrolPoints[ptrl.before + 1]
  IN  /\ k >= 1 => ptrl.currentPatrolIndex \in 0..(k - 1)
      /\ Patrolling /\ ptrl.current # was =>
           ptrl.dest = was /\ ptrl.currentPatrolIndex = ptrl.before
      /\ Patrolling /\ ptrl.current = was =>
           /\ ptrl.currentPatrolIndex = (ptrl.before + 1) % k
           /\ ptrl.dest = ptrl.patrolPoints[ptrl.currentPatrolIndex + 1]
      /\ (ptrl.op = "determineDestination" /\ k = 0) =>
           ptrl.dest = determineDestination(ptrl.chaseRadius, ptrl.current, ptrl.pacman,
                                            ptrl.isScared, ptrl.random).dest

\* a waypoint other than the first was reached and the index went back to 0
C32_Witness ==
  /\ Patrolling
  /\ Len(ptrl.patrolPoints) >= 2
  /\ ptrl.before = Len(ptrl.patrolPoints) - 1
  /\ ptrl.current = ptrl.patrolPoints[ptrl.before + 1]
  /\ ptrl.currentPatrolIndex = 0
  /\ ptrl.dest = ptrl.patrolPoints[1]
  /\ ptrl.dest # ptrl.current

(* --------------------- GameState: flags and their timers ---------------- *)
\* C33: an effect flag is true only while its timer is armed: the timer is
\* tracked under its id and the tracked timeout is pending
C33_FlagOnlyWhileArmed ==
  \A id \in TimerIds :
    FlagOf(id) => /\ timers[id] # 0
                  /\ timeouts[timers[id]].id = id

\* C34: while the status is Paused the passing of time changes neither flag,
\* publishes no PowerModeEnded and takes nothing off the time an effect has left
C34_PausedSuspendsEffects ==
  [][(status = "Paused" /\ lastOp' \in {"tick", "expireScared", "expirePath"}) =>
       /\ ghostsScared' = ghostsScared
       /\ showPath' = showPath
       /\ "PowerModeEnded" \notin Range(published')
       /\ \A id \in TimerIds :
            timerLeft([timers |-> timers', timeouts |-> timeouts'], id) = timerLeft(TM, id)]_vars

(* ------------------------- the wired game: lives ------------------------ *)
\* C35: when a loadLevel call has completed the player has the initial number
\* of lives and is not invincible, and the life count is never below -1
C35_FullLivesAfterLoad ==
  /\ lastOp = "levelLoaded" => (coLife.lives = InitialLives /\ ~coLife.invincible)
  /\ coLife.lives >= -1

(* --------------------- the wired game on the last life ------------------ *)
\* a game in play after its first load, the player on the last life (two lives
\* lost and the invincibility over), the second ghost on its home tile or by
\* the power pellet, nothing collected yet
InitLast ==
  /\ status = "Playing"
  /\ level = 1
  /\ ghostsScared = FALSE
  /\ showPath = FALSE
  /\ timers = [i \in TimerIds |-> 0]
  /\ timeouts = [h \in Handles |-> NoTimeout]
  /\ score2 = 0
  /\ consecutiveGhosts = 0
  /\ lastOp = "levelLoaded"
  /\ ret = FALSE
  /\ cbCalls = <<>>
  /\ published = <<>>
  /\ lastPoints2 = 0
  /\ oldArmed = {}
  /\ oldStreak = 0
  /\ sinceArm = [i \in TimerIds |-> 0]
  /\ lastDur = [i \in TimerIds |-> 0]
  /\ live = [i \in TimerIds |-> FALSE]
  /\ expiries = [i \in TimerIds |-> 0]
  /\ streakK = 0
  /\ scen = 0
  /\ callbackSet = TRUE
  /\ BusInit
  /\ PfInit
  /\ LvIdle
  /\ RpIdle
  /\ WlIdle
  /\ GhIdle
  /\ coPac = startCentre
  /\ coDots = LevelDots
  /\ coPellets = LevelPellets
  /\ \E spot \in {GhostHome} \cup GhostLane : coGhosts = moveGhost(LevelGhosts, 2, spot)
  /\ coLife = [lives |-> 0, invincible |-> FALSE, left |-> -1]
  /\ coRespawns = {}
  /\ coLog = <<>>
  /\ coPre = NoPre
  /\ coPasses = 0
  /\ esLevel = 1
  /\ esLoads = {}
  /\ esStarted = 1
  /\ esScreen = "none"
  /\ esFrames = 0
  /\ esSeen = <<>>
  /\ esPre = NoEsPre

SpecLast == InitLast /\ [][NextGame]_vars

\* the events of one kind and flag in the log of the last pass
Fatal == {i \in 1..Len(coLog) : coLog[i].ev = "PacmanDied" /\ coLog[i].flag}
GameOvers == {j \in 1..Len(published) : published[j] = "GameOver"}

\* C36: no frame publishes PacmanDied{gameOver: true} or GameOver more than
\* once, and the life count is not taken below -1
C36_EndsOnce ==
  lastOp = "frame" =>
    /\ Cardinality(Fatal) <= 1
    /\ Cardinality(GameOvers) <= 1
    /\ coLife.lives >= -1

\* C37: a frame that ends the game (endGame has handed GameOver to the
\* callback) declares no victory: Victory is not handed to the callback and
\* LevelCompleted, the event the completion bonus is added on, is not published
C37_NoVictoryAfterGameOver ==
  (lastOp = "frame" /\ \E j \in 1..Len(cbCalls) : cbCalls[j] = "GameOver") =>
    /\ \A j \in 1..Len(cbCalls) : cbCalls[j] # "Victory"
    /\ \A j \in 1..Len(published) : published[j] # "LevelCompleted"

(* --------------------------- ghosts of a level -------------------------- *)
\* the replacements whose timeout has not run yet
Pending(respawns) == {r \in respawns : ~r.added}
LiveIds == {coGhosts[k].id : k \in 1..Len(coGhosts)}
PendingIds == {r.ghost.id : r \in Pending(coRespawns)}

\* C38: the ghosts in the collection and the replacements still to come are
\* together as many as before, whatever happens; no ghost is in the collection
\* twice, none is there while its replacement is to come, and a replacement
\* whose timeout has run is not put in again
C38_GhostsConserved ==
  /\ [](/\ Cardinality(LiveIds) = Len(coGhosts)
        /\ LiveIds \cap PendingIds = {}
        /\ Cardinality(PendingIds) = Cardinality(Pending(coRespawns)))
  /\ [][/\ Len(coGhosts') + Cardinality(Pending(coRespawns'))
             = Len(coGhosts) + Cardinality(Pending(coRespawns))
        /\ \A r \in coRespawns : r.added => [r EXCEPT !.waited = 0] \in
                                   {[q EXCEPT !.waited = 0] : q \in {x \in coRespawns' : x.added}}]_vars

\* an eaten ghost's replacement has been put into the collection while another
\* ghost was there all along
C38_Witness ==
  /\ lastOp = "respawn"
  /\ Len(coGhosts) = MaxGhosts
  /\ \E r \in coRespawns : r.added /\ coGhosts[Len(coGhosts)] = r.ghost

(* ----------------------- the wired game: the screens -------------------- *)
\* C39: confirming the name publishes one HighScoreAdded (one run of Game's
\* confirm callback, which adds one entry), and closing the high score screen
\* it opened starts one loadLevel call
C39_OneConfirmOneScore ==
  [][/\ lastOp' = "nameConfirmed" =>
          Cardinality({j \in 1..Len(published') : published'[j] = "HighScoreAdded"}) = 1
     /\ (lastOp = "nameConfirmed" /\ lastOp' = "highScoresClosed") =>
          esStarted' = esStarted + 1]_vars

\* C40: a frame in which the last life is lost ends with the status GameOver,
\* and a frame in which the last dot is collected and no life is lost ends
\* with the status Victory
C40_TerminalObservable ==
  (lastOp = "frame" /\ coPre.error = "none") =>
    /\ Fatal # {} => status = "GameOver"
    /\ (Fatal = {} /\ Len(coPre.dots) > 0 /\ Len(coDots) = 0) => status = "Victory"

====
